---- MODULE Spec2Model ----
(***************************************************************************)
(* A model of the SystemVerilog preprocessor (svlog/syntax/preproc.rs) and *)
(* of the constant evaluator (svlog/value.rs): the folding of opcodes and  *)
(* the resolution of parameters.                                           *)
(*                                                                         *)
(* The preprocessor is a pull-driven iterator.  Its control position       *)
(* inside next() / handle_directive() is the variable pc; one action is    *)
(* the code between two inspections of the look-ahead `token`.  The lexer   *)
(* streams are the environment: every read of a stream yields a token of   *)
(* the scenario's vocabulary or the end of that stream.                    *)
(***************************************************************************)
EXTENDS Integers, Sequences, FiniteSets, TLC

VARIABLES
    pc,             \* control position inside Preprocessor::next
    token,          \* Preprocessor.token (the one-token look-ahead)
    stack,          \* Preprocessor.stack (sources of the open streams)
    contents,       \* Preprocessor.contents
    macro_defs,     \* Preprocessor.macro_defs
    macro_stack,    \* Preprocessor.macro_stack (top is the last element)
    defcond_stack,  \* Preprocessor.defcond_stack (top is the last element)
    dirs,           \* Preprocessor.dirs
    lv,             \* locals of the running handle_directive / try_eat_name
    result,         \* what the last call of next() returned
    hd,             \* history: the handle_directive call in progress / just ended
    log,            \* history: tokens consumed since the current backtick
    groups,         \* history: reference semantics of the open `ifdef groups
    afterErr,       \* history: an earlier call of next() returned Err
    spin,           \* history: the main loop repeated an iteration in an unchanged state
    expect,         \* history: tokens a macro expansion is required to emit next
    inc,            \* history: the include whose file is being read
    scn,            \* the scenario (vocabulary of the sources), fixed by Init
    ev,             \* state of the constant evaluator scenario
    cv              \* state of the constant_value_of scenario

vars == <<pc, token, stack, contents, macro_defs, macro_stack, defcond_stack,
          dirs, lv, result, hd, log, groups, afterErr, spin, expect, inc, scn, ev,
          cv>>

-----------------------------------------------------------------------------
(* Bounds of the model. *)

MaxNest == 2
MaxParams == 1
MaxArgToks == 2
MaxIncludes == 1
MaxMacroStack == 6
MaxFileName == 1
MaxLine == 2
MaxWidth == 3
MaxInt == 9
MaxExp == 3
MaxRepeat == 2
MaxEnv == 2
IsizeBits == 3

-----------------------------------------------------------------------------
(* Tokens: (CatTokenKind, Span).  k is the kind, c the character of a      *)
(* Symbol, x the text Span::extract() returns, src the span's source.      *)

(* The character '`' is written BT: a TLA+ string cannot hold it. *)
BT == "BACKTICK"
Tk(k, c, x, src) == [k |-> k, c |-> c, x |-> x, src |-> src]
NoTok == Tk("None", "", "", 0)
Lx(k, c, x) == [k |-> k, c |-> c, x |-> x]
LText(x) == Lx("Text", "", x)
LDigits(x) == Lx("Digits", "", x)
LSym(c) == Lx("Symbol", c, c)
LWs == Lx("Whitespace", "", " ")
LNl == Lx("Newline", "", "\n")
LComment == Lx("Comment", "", "/**/")
At(l, src) == Tk(l.k, l.c, l.x, src)

IsSym(t, c) == t.k = "Symbol" /\ t.c = c
IsNameStart(t) == t.k = "Text" \/ IsSym(t, "_")
IsNameCont(t) == t.k = "Text" \/ t.k = "Digits" \/ IsSym(t, "_")

RECURSIVE Concat(_)
Concat(ps) == IF ps = <<>> THEN "" ELSE Head(ps) \o Concat(Tail(ps))

RECURSIVE Rev(_)
Rev(s) == IF s = <<>> THEN <<>> ELSE Append(Rev(Tail(s)), Head(s))

Front(s) == SubSeq(s, 1, Len(s) - 1)
Last(s) == s[Len(s)]
IsPrefix(p, s) == Len(p) <= Len(s) /\ SubSeq(s, 1, Len(p)) = p

-----------------------------------------------------------------------------
(* Sources known to the source manager. *)

RootSrc == 1
IncSrc == 2
AnonSrc == 3
FileSys == [f |-> IncSrc]

(* The directive table. *)
DIRECTIVES_TABLE ==
    [include |-> "Include", define |-> "Define", undef |-> "Undef",
     undefineall |-> "Undefineall", ifdef |-> "Ifdef", ifndef |-> "Ifndef",
     else |-> "Else", elsif |-> "Elsif", endif |-> "Endif",
     __FILE__ |-> "CurrentFile", __LINE__ |-> "CurrentLine",
     resetall |-> "Resetall", celldefine |-> "Celldefine",
     endcelldefine |-> "Endcelldefine", default_nettype |-> "DefaultNettype",
     timescale |-> "Timescale"]

Directive(dir_name) ==
    IF dir_name \in DOMAIN DIRECTIVES_TABLE THEN DIRECTIVES_TABLE[dir_name] ELSE "Unknown"

-----------------------------------------------------------------------------
(* Scenarios.  A scenario fixes the vocabulary the lexers of the sources   *)
(* draw from, the identifiers that occur after a backtick and in directive *)
(* arguments, and the macros predefined at construction.                   *)

CondNames == {<<"ifdef">>, <<"ifndef">>, <<"elsif">>, <<"else">>, <<"endif">>}

(* The tokens a directive name is categorized into: '_' is a Symbol. *)
Parts(n) ==
    CASE n = "__FILE__" -> <<"_", "_", "FILE", "_", "_">>
      [] n = "__LINE__" -> <<"_", "_", "LINE", "_", "_">>
      [] n = "default_nettype" -> <<"default", "_", "nettype">>
      [] OTHER -> <<n>>

LexOf(x) ==
    IF x = "_" THEN LSym("_") ELSE IF x = "21" THEN LDigits(x) ELSE LText(x)

(* A macro name made of a Text, a '_' and a Digits token, as in the test   *)
(* macro_name_with_digits_and_underscores, and the name its first token    *)
(* alone makes.                                                            *)
AXI_21 == <<"AXI", "_", "21">>
AXI == <<"AXI">>
LexesOf(names) == UNION {{LexOf(n[i]) : i \in DOMAIN n} : n \in names}

(* The names that occur after a backtick. *)
TickNames(s) ==
    CASE s = "cond" -> CondNames
      [] s = "dirs" -> {Parts(n) : n \in DOMAIN DIRECTIVES_TABLE} \cup {<<"A">>, <<"x">>}
      [] s = "macro" -> {<<"define">>, <<"M">>}
      [] s = "include" -> {<<"define">>, <<"include">>, <<"M">>}
      [] s = "predef" -> {<<"P">>, <<"Q">>, <<"R">>}
      [] s = "name" -> {<<"define">>, AXI_21}
      [] s = "table" ->
           {<<"define">>, <<"undef">>, <<"undefineall">>, <<"include">>, <<"ifdef">>,
            <<"else">>, <<"endif">>, <<"timescale">>, Parts("__LINE__"), <<"A">>}
      [] OTHER -> {}

(* The names that occur as arguments of directives. *)
Idents(s) ==
    CASE s = "cond" -> {<<"A">>, <<"B">>}
      [] s = "dirs" -> {<<"A">>}
      [] s = "macro" -> {<<"M">>}
      [] s = "include" -> {<<"M">>}
      [] s = "table" -> {<<"A">>, <<"B">>}
      [] s = "name" -> {AXI, AXI_21}
      [] OTHER -> {}

(* The names that occur as macro parameters. *)
Params(s) ==
    CASE s = "macro" -> {<<"a">>}
      [] OTHER -> {}

(* The macro bodies that occur, as the texts of their tokens. *)
Bodies(s) ==
    CASE s \in {"dirs", "table", "name"} -> {<<"x">>}
      [] s = "macro" -> {<<"(", "a", ")">>, <<"a", " ", "x">>}
      [] s = "include" -> {<<BT, "include", "\"", "f", "\"">>}
      [] OTHER -> {}

(* The tokens that occur outside directives. *)
Plain(s) ==
    CASE s = "cond" -> {LSym(BT), LWs} \cup LexesOf(CondNames \cup Idents(s))
      [] s = "predef" -> {LSym(BT), LWs, LNl, LText("x"), LSym(";")}
      [] s = "name" -> {LSym(BT), LWs, LNl}
      [] OTHER -> {LSym(BT), LWs, LNl, LText("x")}

(* The tokens that occur in macro arguments. *)
ArgLexes(s) ==
    CASE s = "macro" -> {LText("x"), LWs, LSym("("), LSym(")"), LSym(",")}
      [] OTHER -> {}

Vocab(s, src) ==
    CASE s = "cond" -> Plain(s)
      [] s = "dirs" /\ src = RootSrc ->
           Plain(s) \cup LexesOf(TickNames(s)) \cup {LSym("\""), LText("f")}
      [] s = "macro" /\ src = RootSrc ->
           Plain(s) \cup ArgLexes(s) \cup {LSym("\\")}
             \cup LexesOf(TickNames(s) \cup Idents(s) \cup Params(s))
      [] s = "include" /\ src = RootSrc ->
           Plain(s) \cup LexesOf(TickNames(s)) \cup {LSym("\""), LText("f")}
      [] s \in {"dirs", "include"} /\ src = IncSrc -> {LText("g"), LNl}
      [] s = "predef" /\ src = RootSrc -> Plain(s) \cup LexesOf(TickNames(s))
      [] s = "name" /\ src = RootSrc ->
           Plain(s) \cup LexesOf(TickNames(s) \cup Idents(s))
             \cup {LText("x"), LDigits("21"), LSym("\""), LSym("\\")}
      [] s = "table" /\ src = RootSrc ->
           Plain(s) \cup LexesOf(TickNames(s) \cup Idents(s)) \cup {LSym("\""), LText("f")}
      [] s = "table" /\ src = IncSrc ->
           {LSym(BT), LWs, LNl, LText("x")} \cup LexesOf({<<"define">>} \cup Idents(s))
      [] OTHER -> {}

(* Preprocessor::new: (name, None) gives an empty body; (name, Some(v))    *)
(* gives the categorization of v, every token carrying the span of all of  *)
(* v.                                                                      *)
NoMacro == [name |-> "", args |-> <<>>, body |-> <<>>]
PredefMacro(name, lexemes, value) ==
    [name |-> name, args |-> <<>>,
     body |-> [i \in 1..Len(lexemes) |->
                  Tk(lexemes[i].k, lexemes[i].c, value, AnonSrc)]]

(* The categorization of a text, given as its characters: letters form a  *)
(* Text token, digits a Digits token, blanks a Whitespace token, a line    *)
(* break is a Newline and any other character a Symbol.                    *)
CharKind(ch) ==
    CASE ch \in {"a", "b", "x"} -> "Text"
      [] ch \in {"0", "1"} -> "Digits"
      [] ch = " " -> "Whitespace"
      [] ch = "\n" -> "Newline"
      [] OTHER -> "Symbol"

RECURSIVE Cat(_)
Cat(chars) ==
    IF chars = <<>> THEN <<>>
    ELSE LET k == CharKind(Head(chars))
             rest == Cat(Tail(chars))
         IN  IF k = "Symbol" THEN <<LSym(Head(chars))>> \o rest
             ELSE IF k \in {"Text", "Digits", "Whitespace"} /\ rest # <<>> /\ rest[1].k = k
             THEN <<Lx(k, "", Head(chars) \o rest[1].x)>> \o Tail(rest)
             ELSE <<Lx(k, "", Head(chars))>> \o rest

(* The (name, Some(value)) pairs given at construction, the values as      *)
(* their characters; and the names of the (name, None) pairs.              *)
PredefValues(s) ==
    CASE s = "predef" -> [n \in {"P", "R"} |->
                             IF n = "P" THEN <<"a", "b", " ", "1", "+">> ELSE <<"0", "1">>]
      [] OTHER -> [n \in {} |-> <<>>]
PredefNone(s) ==
    CASE s \in {"cond", "dirs", "table"} -> {"A"}
      [] s = "predef" -> {"Q"}
      [] OTHER -> {}

Predefined(s) ==
    [n \in DOMAIN PredefValues(s) \cup PredefNone(s) |->
        IF n \in PredefNone(s) THEN PredefMacro(n, <<>>, "")
        ELSE PredefMacro(n, Cat(PredefValues(s)[n]), Concat(PredefValues(s)[n]))]

PrefixOfSome(p, names) == \E n \in names : IsPrefix(p, n)

(* What the lexer of a source may yield for a read whose token is          *)
(* inspected in context ctx.                                               *)
Admissible(l, ctx) ==
    CASE ctx.c = "loop" -> l \in Plain(scn)
      [] ctx.c = "tick" ->
           /\ IsNameStart(l) => PrefixOfSome(<<l.x>>, TickNames(scn))
           /\ (l.x \in {"ifdef", "ifndef"}) => Len(defcond_stack) < MaxNest
      [] ctx.c = "dname" ->
           IsNameCont(l) => PrefixOfSome(Append(ctx.np, l.x), TickNames(scn))
      [] ctx.c = "ident0" ->
           IsNameStart(l) => PrefixOfSome(<<l.x>>, Idents(scn))
      [] ctx.c = "ident" ->
           IsNameCont(l) => PrefixOfSome(Append(ctx.np, l.x), Idents(scn))
      [] ctx.c = "param0" ->
           IsNameStart(l) => PrefixOfSome(<<l.x>>, Params(scn))
      [] ctx.c = "param" ->
           IsNameCont(l) => PrefixOfSome(Append(ctx.np, l.x), Params(scn))
      [] ctx.c = "body" ->
           \/ l = LNl
           \/ l = LWs /\ ctx.ws
           \/ l = LSym("\\") /\ ctx.nest < 1
           \/ PrefixOfSome(Append(ctx.np, l.x), Bodies(scn))
      [] ctx.c = "arg" ->
           /\ l \in ArgLexes(scn)
           /\ ctx.n >= MaxArgToks => (l = LSym(")") \/ (ctx.nest = 0 /\ l = LSym(",")))
      [] ctx.c = "fname" ->
           ctx.n >= MaxFileName => l \in {LSym("\""), LNl}
      [] ctx.c = "line" ->
           /\ l \in Plain(scn)
           /\ ctx.n >= MaxLine => l = LNl
      [] OTHER -> TRUE

(* A lexer never yields two tokens in a row that it would have merged. *)
Merges(t, l, src) ==
    t.src = src /\ t.k = l.k /\ l.k \in {"Text", "Digits", "Whitespace"}

Ctx(c) == [c |-> c, np |-> <<>>, n |-> 0, nest |-> 0, ws |-> FALSE]
CtxName(c, np) == [c |-> c, np |-> np, n |-> 0, nest |-> 0, ws |-> FALSE]
CtxLen(c, n, nest) == [c |-> c, np |-> <<>>, n |-> n, nest |-> nest, ws |-> FALSE]
(* Reading a macro body: the body so far, and the backslashes consumed. *)
CtxBody(body, consumed) ==
    [c |-> "body", np |-> [i \in DOMAIN body |-> body[i].x], n |-> Len(body),
     nest |-> Cardinality({i \in DOMAIN consumed : IsSym(consumed[i], "\\")}),
     ws |-> FALSE]
(* Reading the token after the parameter list: whitespace may precede the  *)
(* body.                                                                   *)
CtxAfterParams == [CtxBody(<<>>, <<>>) EXCEPT !.ws = TRUE]

Lex(src, ctx) ==
    {At(l, src) : l \in {v \in Vocab(scn, src) :
                             Admissible(v, ctx) /\ ~Merges(token, v, src)}}

-----------------------------------------------------------------------------
(* Preprocessor::bump as a relation: the states it can leave behind, given *)
(* the macro stack ms and the stream stack st.  A non-empty macro stack is *)
(* popped; otherwise exhausted streams are popped until one yields a       *)
(* token, and the look-ahead is None once no stream is left.               *)

(* A variant that pops an exhausted stream only when a token is found. *)
BumpSetKeepsExhausted(ms, st, ctx) ==
    IF ms # <<>>
    THEN {[ms |-> Front(ms), st |-> st, tok |-> Last(ms)]}
    ELSE {[ms |-> ms, st |-> st, tok |-> NoTok]} \cup
         UNION {{[ms |-> ms, st |-> SubSeq(st, 1, n), tok |-> t] : t \in Lex(st[n], ctx)}
                : n \in 1..Len(st)}

BumpSet(ms, st, ctx) ==
    IF ms # <<>>
    THEN {[ms |-> Front(ms), st |-> st, tok |-> Last(ms)]}
    ELSE {[ms |-> ms, st |-> <<>>, tok |-> NoTok]} \cup
         UNION {{[ms |-> ms, st |-> SubSeq(st, 1, n), tok |-> t] : t \in Lex(st[n], ctx)}
                : n \in 1..Len(st)}

(* self.bump() in a handler: the consumed look-ahead joins the log. *)
bump(ctx) ==
    \E b \in BumpSet(macro_stack, stack, ctx) :
        /\ token' = b.tok
        /\ macro_stack' = b.ms
        /\ stack' = b.st
        /\ log' = Append(log, token)

NoBump == UNCHANGED <<token, macro_stack, stack, log>>

(* Preprocessor::is_inactive *)
is_inactive(ds) == ds # <<>> /\ Last(ds) # "Enabled"

-----------------------------------------------------------------------------
(* Results of next() and the record of a handle_directive call. *)

RPending == [k |-> "pending", tok |-> NoTok, msg |-> ""]
RNone == [k |-> "none", tok |-> NoTok, msg |-> ""]
ROk(t) == [k |-> "ok", tok |-> t, msg |-> ""]
RErr(m) == [k |-> "err", tok |-> NoTok, msg |-> m]

HdNone == [name |-> "", dir |-> "", active |-> FALSE, defined |-> FALSE,
           st |-> "none", msg |-> ""]

EmptyParams == [n \in {} |-> <<>>]

LvInit == [np |-> <<>>, cont |-> "", dname |-> "", bsrc |-> 0, makro |-> NoMacro,
           closing |-> "", filename |-> <<>>, argi |-> 0, ptoks |-> <<>>,
           params |-> EmptyParams, caps |-> <<>>, nesting |-> 0]

(* ev: the last value built by the evaluator: rv is TRUE when it is the    *)
(* result of const_mir_rvalue, arg is the integer handed to make_int.      *)
(* kind is the ValueKind (Abort: the evaluation panicked), fields the      *)
(* elements of a StructOrArray; operr and cond are records of the call:    *)
(* whether an operand evaluated to Error, and the kind of the value of a   *)
(* Ternary's condition; lhs and rhs are the integers handed to the helper  *)
(* of the opcode: the operands of const_binary_arith_int, the value and    *)
(* the amount of const_shift_int, the argument of const_reduction_int and  *)
(* the size of its type, the count of a Repeat (rhs); operands are the     *)
(* evaluated operands of a Concat, a Repeat or a cast; mir_ty is the type  *)
(* of a cast opcode and diag the diagnostics its arm emitted; bits is the  *)
(* length of the special-bit and x-bit vectors of an Int.                  *)
EvInit == [op |-> "none", ty |-> [kind |-> "Bit", width |-> 1], n |-> 0,
           arg |-> 0, rv |-> FALSE, kind |-> "Int", fields |-> <<>>,
           operr |-> FALSE, cond |-> "none", lhs |-> 0, rhs |-> 0,
           operands |-> <<>>, mir_ty |-> [kind |-> "Bit", width |-> 1],
           diag |-> <<>>, bits |-> 1]

(* handle_directive returns Ok(()): next() continues its loop. *)
RetOk ==
    /\ pc' = "loop"
    /\ lv' = LvInit
    /\ hd' = [hd EXCEPT !.st = "ok"]
    /\ result' = result

(* handle_directive returns Err(msg): next() returns Some(Err(msg)). *)
RetErr(msg) ==
    /\ pc' = "idle"
    /\ lv' = LvInit
    /\ hd' = [hd EXCEPT !.st = "err", !.msg = msg]
    /\ result' = RErr(msg)

Goto(p) ==
    /\ pc' = p
    /\ UNCHANGED <<hd, result>>

Ghosts == <<groups, afterErr, spin, expect, inc>>
Fixed == <<scn, ev, cv>>

-----------------------------------------------------------------------------
(* Reference semantics of conditional groups, kept beside the Defcond      *)
(* stack: one record per open group.  live: the branch being read was      *)
(* selected (its guard held when its directive was processed and no        *)
(* earlier branch of the group was selected); taken: some branch of the    *)
(* group has been selected; early / now: a token was emitted from an       *)
(* earlier branch / from the branch being read.                            *)

(* The histories a scenario keeps. *)
Keeps(h) ==
    CASE scn = "cond" -> h \in {"groups", "afterErr", "spin"}
      [] scn = "macro" -> h = "expect"
      [] scn = "include" -> h = "inc"
      [] OTHER -> FALSE

RefOpen(g) == [live |-> g, taken |-> g, early |-> FALSE, now |-> FALSE]
RefBranch(top, g) ==
    [live |-> ~top.taken /\ g, taken |-> top.taken \/ g,
     early |-> top.early \/ top.now, now |-> FALSE]
RefEmit(gs) == [i \in DOMAIN gs |-> [gs[i] EXCEPT !.now = TRUE]]
RefPush(g) == IF Keeps("groups") THEN Append(groups, RefOpen(g)) ELSE groups
RefNext(g) ==
    IF Keeps("groups") THEN Append(Front(groups), RefBranch(Last(groups), g)) ELSE groups
RefPop == IF Keeps("groups") THEN Front(groups) ELSE groups
RefLive(gs) == \A i \in DOMAIN gs : gs[i].live

-----------------------------------------------------------------------------
(* Preprocessor::next *)

ErrBacktick == "expected compiler directive after backtick"

(* next() is called.  The look-ahead is populated if it is None. *)
NextCall ==
    /\ pc = "idle"
    /\ pc' = "loop"
    /\ result' = RPending
    /\ afterErr' = (afterErr \/ (Keeps("afterErr") /\ result.k = "err"))
    /\ hd' = HdNone
    /\ log' = <<>>
    /\ lv' = LvInit
    /\ IF token = NoTok
       THEN \E b \in BumpSet(macro_stack, stack, Ctx("loop")) :
                token' = b.tok /\ macro_stack' = b.ms /\ stack' = b.st
       ELSE UNCHANGED <<token, macro_stack, stack>>
    /\ UNCHANGED <<contents, macro_defs, defcond_stack, dirs, groups, spin, expect, inc>>
    /\ UNCHANGED Fixed

(* The monitor of a macro expansion: the emitted token must be the next    *)
(* expected one.                                                           *)
ExpectInit ==
    [need |-> <<>>, plain |-> TRUE, k |-> 0, bad |-> FALSE, badPlain |-> FALSE,
     full |-> FALSE]

ExpectFail == [expect EXCEPT !.need = <<>>, !.bad = TRUE,
                             !.badPlain = @ \/ expect.plain]

(* A token (or None, as NoTok) is returned by next(). *)
ExpectEmit(t) ==
    IF ~Keeps("expect") \/ expect.need = <<>> THEN expect
    ELSE IF Head(expect.need) = t
    THEN [expect EXCEPT !.need = Tail(@),
                        !.full = @ \/ (Tail(expect.need) = <<>> /\ expect.k > 0)]
    ELSE ExpectFail

(* An expansion with k parameters starts: seq is to be emitted next. *)
ExpectStart(seq, k) ==
    [need |-> seq,
     plain |-> \A i \in DOMAIN seq : ~IsSym(seq[i], BT),
     k |-> k,
     bad |-> expect.bad \/ expect.need # <<>>,
     badPlain |-> expect.badPlain \/ (expect.need # <<>> /\ expect.plain),
     full |-> expect.full]

(* The monitor of an include: while the stream pushed for it is open, the  *)
(* emitted tokens are tokens of the included file.                         *)
IncInit == [src |-> 0, level |-> 0, bad |-> FALSE]

IncStart(src, level, b) ==
    IF ~Keeps("inc") THEN inc ELSE
    [src |-> src, level |-> IF Len(b.st) >= level THEN level ELSE 0, bad |-> inc.bad]

IncEmit(t) ==
    IF ~Keeps("inc") THEN inc ELSE
    IF inc.level > 0 /\ Len(stack) >= inc.level
    THEN [inc EXCEPT !.bad = @ \/ t.src # inc.src]
    ELSE [inc EXCEPT !.level = 0]

(* One iteration of the main loop on a look-ahead that is not a backtick:  *)
(* emit it (or return None at the end of input) when active, discard it    *)
(* when inactive.                                                          *)
LoopOrdinary ==
    /\ pc = "loop"
    /\ ~IsSym(token, BT)
    /\ hd' = HdNone
    /\ log' = <<>>
    /\ lv' = LvInit
    /\ \E b \in BumpSet(macro_stack, stack, Ctx("loop")) :
        /\ token' = b.tok /\ macro_stack' = b.ms /\ stack' = b.st
        /\ IF is_inactive(defcond_stack)
           THEN /\ pc' = "loop"
                /\ result' = result
                /\ spin' = (spin \/ (/\ Keeps("spin")
                                     /\ token = NoTok /\ b.tok = NoTok
                                     /\ b.ms = macro_stack /\ b.st = stack))
                /\ UNCHANGED <<groups, expect, inc>>
           ELSE /\ pc' = "idle"
                /\ result' = IF token = NoTok THEN RNone ELSE ROk(token)
                /\ groups' = IF token = NoTok THEN groups ELSE RefEmit(groups)
                /\ expect' = ExpectEmit(token)
                /\ inc' = IF token = NoTok THEN inc ELSE IncEmit(token)
                /\ spin' = spin
    /\ UNCHANGED <<contents, macro_defs, defcond_stack, dirs, afterErr>>
    /\ UNCHANGED Fixed

(* The look-ahead is a backtick: consume it. *)
LoopBacktick ==
    /\ pc = "loop"
    /\ IsSym(token, BT)
    /\ pc' = "tick"
    /\ hd' = HdNone
    /\ log' = <<>>
    /\ lv' = [LvInit EXCEPT !.bsrc = token.src]
    /\ \E b \in BumpSet(macro_stack, stack, Ctx("tick")) :
        token' = b.tok /\ macro_stack' = b.ms /\ stack' = b.st
    /\ UNCHANGED <<contents, macro_defs, defcond_stack, dirs, result>>
    /\ UNCHANGED Ghosts
    /\ UNCHANGED Fixed

(* A variant of TickStep in which a doubled backtick emits a backtick. *)
TickStepEmitsPair ==
    /\ pc = "tick"
    /\ UNCHANGED <<contents, macro_defs, defcond_stack, dirs, afterErr, spin>>
    /\ UNCHANGED Fixed
    /\ hd' = hd
    /\ IF IsNameStart(token)
       THEN /\ pc' = "name"
            /\ lv' = [lv EXCEPT !.np = <<token.x>>, !.cont = "dispatch"]
            /\ bump(CtxName("dname", <<token.x>>))
            /\ UNCHANGED <<result, groups, expect, inc>>
       ELSE IF IsSym(token, "\"") \/ IsSym(token, "\\")
       THEN /\ bump(Ctx("loop"))
            /\ lv' = LvInit
            /\ IF is_inactive(defcond_stack)
               THEN pc' = "loop" /\ UNCHANGED <<result, groups, expect, inc>>
               ELSE /\ pc' = "idle"
                    /\ result' = ROk(token)
                    /\ groups' = RefEmit(groups)
                    /\ expect' = ExpectEmit(token)
                    /\ inc' = IncEmit(token)
       ELSE IF IsSym(token, BT)
       THEN /\ bump(Ctx("loop"))
            /\ lv' = LvInit
            /\ pc' = "idle"
            /\ result' = ROk(token)
            /\ UNCHANGED <<groups, expect, inc>>
       ELSE /\ pc' = "idle"
            /\ lv' = LvInit
            /\ result' = RErr(ErrBacktick)
            /\ NoBump
            /\ UNCHANGED <<groups, expect, inc>>

(* After the backtick: the first token of a name (try_eat_name), one of    *)
(* the escapes, or an error.                                               *)
TickStep ==
    /\ pc = "tick"
    /\ UNCHANGED <<contents, macro_defs, defcond_stack, dirs, afterErr, spin>>
    /\ UNCHANGED Fixed
    /\ hd' = hd
    /\ IF IsNameStart(token)
       THEN /\ pc' = "name"
            /\ lv' = [lv EXCEPT !.np = <<token.x>>, !.cont = "dispatch"]
            /\ bump(CtxName("dname", <<token.x>>))
            /\ UNCHANGED <<result, groups, expect, inc>>
       ELSE IF IsSym(token, "\"") \/ IsSym(token, "\\")
       THEN /\ bump(Ctx("loop"))
            /\ lv' = LvInit
            /\ IF is_inactive(defcond_stack)
               THEN pc' = "loop" /\ UNCHANGED <<result, groups, expect, inc>>
               ELSE /\ pc' = "idle"
                    /\ result' = ROk(token)
                    /\ groups' = RefEmit(groups)
                    /\ expect' = ExpectEmit(token)
                    /\ inc' = IncEmit(token)
       ELSE IF IsSym(token, BT)
       THEN /\ bump(Ctx("loop"))
            /\ lv' = LvInit
            /\ pc' = "loop"
            /\ UNCHANGED <<result, groups, expect, inc>>
       ELSE /\ pc' = "idle"
            /\ lv' = LvInit
            /\ result' = RErr(ErrBacktick)
            /\ NoBump
            /\ UNCHANGED <<groups, expect, inc>>

(* The kind of name try_eat_name reads for the caller that continues at   *)
(* position cont.                                                          *)
NameCtx(cont) ==
    CASE cont = "dispatch" -> "dname"
      [] cont = "def_arg_after" -> "param"
      [] OTHER -> "ident"

(* A variant of NameStep in which a Digits token ends the name. *)
NameStepNoDigits ==
    /\ pc = "name"
    /\ UNCHANGED <<contents, macro_defs, defcond_stack, dirs, result, hd>>
    /\ UNCHANGED Ghosts
    /\ UNCHANGED Fixed
    /\ IF IsNameStart(token)
       THEN /\ pc' = "name"
            /\ lv' = [lv EXCEPT !.np = Append(lv.np, token.x)]
            /\ bump(CtxName(NameCtx(lv.cont), Append(lv.np, token.x)))
       ELSE /\ pc' = lv.cont
            /\ lv' = lv
            /\ NoBump

(* Preprocessor::try_eat_name, after its first token: the name grows while *)
(* the look-ahead is Text, Digits or '_'; then the caller continues.       *)
NameStep ==
    /\ pc = "name"
    /\ UNCHANGED <<contents, macro_defs, defcond_stack, dirs, result, hd>>
    /\ UNCHANGED Ghosts
    /\ UNCHANGED Fixed
    /\ IF IsNameCont(token)
       THEN /\ pc' = "name"
            /\ lv' = [lv EXCEPT !.np = Append(lv.np, token.x)]
            /\ bump(CtxName(NameCtx(lv.cont), Append(lv.np, token.x)))
       ELSE /\ pc' = lv.cont
            /\ lv' = lv
            /\ NoBump

-----------------------------------------------------------------------------
(* Preprocessor::handle_directive *)

Enter(d) == pc = "dispatch" /\ Directive(Concat(lv.np)) = d

HdStart ==
    [name |-> Concat(lv.np), dir |-> Directive(Concat(lv.np)),
     active |-> ~is_inactive(defcond_stack),
     defined |-> Concat(lv.np) \in DOMAIN macro_defs,
     st |-> "running", msg |-> ""]

RetOkNow ==
    /\ pc' = "loop"
    /\ lv' = LvInit
    /\ hd' = [HdStart EXCEPT !.st = "ok"]
    /\ result' = result

RetErrNow(msg) ==
    /\ pc' = "idle"
    /\ lv' = LvInit
    /\ hd' = [HdStart EXCEPT !.st = "err", !.msg = msg]
    /\ result' = RErr(msg)

(* "Skip leading whitespace", then go on at position p. *)
SkipWs(p, ctx) ==
    /\ pc' = p
    /\ hd' = HdStart
    /\ result' = result
    /\ lv' = [lv EXCEPT !.dname = Concat(lv.np)]
    /\ IF token.k = "Whitespace" THEN bump(ctx) ELSE NoBump

(* The first token of a name read by a handler: try_eat_name or msg. *)
NameOr(cont, msg) ==
    IF IsNameStart(token)
    THEN /\ pc' = "name"
         /\ lv' = [lv EXCEPT !.np = <<token.x>>, !.cont = cont]
         /\ bump(CtxName(NameCtx(cont), <<token.x>>))
         /\ UNCHANGED <<hd, result>>
    ELSE /\ RetErr(msg)
         /\ NoBump

ErrElsif == "found elsif without any preceeding ifdef, ifndef, or elsif directive"
ErrElse == "found else without any preceeding ifdef, ifndef, or elsif directive"
ErrEndif == "found endif without any preceeding ifdef, ifndef, else, or elsif directive"

(* Ifdef | Ifndef | Elsif: skip whitespace, then read the macro name. *)
HandleCond ==
    /\ \/ Enter("Ifdef") \/ Enter("Ifndef") \/ Enter("Elsif")
    /\ SkipWs("cond_name", Ctx("ident0"))
    /\ UNCHANGED <<contents, macro_defs, defcond_stack, dirs>>
    /\ UNCHANGED Ghosts
    /\ UNCHANGED Fixed

CondName ==
    /\ pc = "cond_name"
    /\ NameOr("cond_after", "expected macro name after " \o lv.dname)
    /\ UNCHANGED <<contents, macro_defs, defcond_stack, dirs>>
    /\ UNCHANGED Ghosts
    /\ UNCHANGED Fixed

(* A variant that evaluates the condition in a skipped branch too. *)
IfdefPushWhenInactive(ds, exists, sign) ==
    IF exists = sign THEN "Enabled" ELSE "Disabled"

(* A variant that pushes Disabled in a skipped branch. *)
IfdefPushDisabledWhenInactive(ds, exists, sign) ==
    IF is_inactive(ds) THEN "Disabled"
    ELSE IF exists = sign THEN "Enabled" ELSE "Disabled"

(* What `ifdef pushes (sign = TRUE) and what `ifndef pushes (sign = FALSE). *)
IfdefPush(ds, exists, sign) ==
    IF is_inactive(ds) THEN "Done"
    ELSE IF exists = sign THEN "Enabled" ELSE "Disabled"

(* A variant that evaluates the condition after a selected branch. *)
ElsifPushAfterEnabled(top, rest, exists) ==
    IF top = "Done" \/ is_inactive(rest) THEN "Done"
    ELSE IF exists THEN "Enabled" ELSE "Disabled"

(* What `elsif pushes in place of the popped entry top; rest is the stack  *)
(* after the pop.                                                          *)
ElsifPush(top, rest, exists) ==
    IF top \in {"Done", "Enabled"} THEN "Done"
    ELSE IF is_inactive(rest) THEN "Done"
    ELSE IF exists THEN "Enabled" ELSE "Disabled"

(* A variant that lets `else re-enable a group whose branch was taken. *)
ElsePushForgetsDone(top) == IF top = "Enabled" THEN "Done" ELSE "Enabled"

(* A variant that lets `else continue a selected branch. *)
ElsePushKeepsEnabled(top) == IF top = "Done" THEN "Done" ELSE "Enabled"

(* What `else pushes in place of the popped entry top. *)
ElsePush(top) == IF top = "Disabled" THEN "Enabled" ELSE "Done"

CondAfter ==
    /\ pc = "cond_after"
    /\ LET name == Concat(lv.np)
           exists == name \in DOMAIN macro_defs
           dir == hd.dir
       IN  CASE dir = "Ifdef" ->
                  /\ Len(defcond_stack) < MaxNest
                  /\ defcond_stack' = Append(defcond_stack, IfdefPush(defcond_stack, exists, TRUE))
                  /\ groups' = RefPush(exists)
                  /\ RetOk
             [] dir = "Ifndef" ->
                  /\ Len(defcond_stack) < MaxNest
                  /\ defcond_stack' = Append(defcond_stack, IfdefPush(defcond_stack, exists, FALSE))
                  /\ groups' = RefPush(~exists)
                  /\ RetOk
             [] OTHER ->
                  IF defcond_stack = <<>>
                  THEN /\ RetErr(ErrElsif)
                       /\ UNCHANGED <<defcond_stack, groups>>
                  ELSE /\ defcond_stack' =
                            Append(Front(defcond_stack),
                                   ElsifPush(Last(defcond_stack), Front(defcond_stack), exists))
                       /\ groups' = RefNext(exists)
                       /\ RetOk
    /\ NoBump
    /\ UNCHANGED <<contents, macro_defs, dirs, afterErr, spin, expect, inc>>
    /\ UNCHANGED Fixed

(* A variant that opens a group at an `else without one. *)
HandleElseOpens ==
    /\ Enter("Else")
    /\ defcond_stack' = IF defcond_stack = <<>> THEN <<"Done">>
                        ELSE Append(Front(defcond_stack), ElsePush(Last(defcond_stack)))
    /\ groups' = IF defcond_stack = <<>> THEN RefPush(FALSE) ELSE RefNext(TRUE)
    /\ RetOkNow
    /\ NoBump
    /\ UNCHANGED <<contents, macro_defs, dirs, afterErr, spin, expect, inc>>
    /\ UNCHANGED Fixed

HandleElse ==
    /\ Enter("Else")
    /\ IF defcond_stack = <<>>
       THEN /\ RetErrNow(ErrElse)
            /\ UNCHANGED <<defcond_stack, groups>>
       ELSE /\ defcond_stack' = Append(Front(defcond_stack), ElsePush(Last(defcond_stack)))
            /\ groups' = RefNext(TRUE)
            /\ RetOkNow
    /\ NoBump
    /\ UNCHANGED <<contents, macro_defs, dirs, afterErr, spin, expect, inc>>
    /\ UNCHANGED Fixed

(* A variant that closes two groups at an `endif when two are open. *)
HandleEndifTwice ==
    /\ Enter("Endif")
    /\ IF defcond_stack = <<>>
       THEN /\ RetErrNow(ErrEndif)
            /\ UNCHANGED <<defcond_stack, groups>>
       ELSE /\ defcond_stack' = <<>>
            /\ groups' = IF Keeps("groups") THEN <<>> ELSE groups
            /\ RetOkNow
    /\ NoBump
    /\ UNCHANGED <<contents, macro_defs, dirs, afterErr, spin, expect, inc>>
    /\ UNCHANGED Fixed

HandleEndif ==
    /\ Enter("Endif")
    /\ IF defcond_stack = <<>>
       THEN /\ RetErrNow(ErrEndif)
            /\ UNCHANGED <<defcond_stack, groups>>
       ELSE /\ defcond_stack' = Front(defcond_stack)
            /\ groups' = RefPop
            /\ RetOkNow
    /\ NoBump
    /\ UNCHANGED <<contents, macro_defs, dirs, afterErr, spin, expect, inc>>
    /\ UNCHANGED Fixed

-----------------------------------------------------------------------------
(* Directives without arguments. *)

ErrUnknown == "unknown compiler directive"

(* A variant that keeps the predefined macros. *)
HandleUndefineallKeepsPredefined ==
    /\ Enter("Undefineall")
    /\ IF is_inactive(defcond_stack)
       THEN RetOkNow /\ UNCHANGED macro_defs
       ELSE /\ macro_defs' = [n \in DOMAIN macro_defs \cap DOMAIN Predefined(scn) |->
                                 macro_defs[n]]
            /\ RetErrNow(ErrUnknown)
    /\ NoBump
    /\ UNCHANGED <<contents, defcond_stack, dirs>>
    /\ UNCHANGED Ghosts
    /\ UNCHANGED Fixed

(* Undefineall: the match arm does not return, so after clearing the table *)
(* control reaches the final statement of handle_directive.                *)
HandleUndefineall ==
    /\ Enter("Undefineall")
    /\ IF is_inactive(defcond_stack)
       THEN RetOkNow /\ UNCHANGED macro_defs
       ELSE /\ macro_defs' = [n \in {} |-> NoMacro]
            /\ RetErrNow(ErrUnknown)
    /\ NoBump
    /\ UNCHANGED <<contents, defcond_stack, dirs>>
    /\ UNCHANGED Ghosts
    /\ UNCHANGED Fixed

(* The token `__FILE__ / `__LINE__ leave on the macro stack: its span is   *)
(* the span of the directive.                                              *)
DirToken(kind) == Tk(kind, "", BT \o Concat(lv.np), lv.bsrc)

HandleCurrent ==
    /\ \/ Enter("CurrentFile") \/ Enter("CurrentLine")
    /\ is_inactive(defcond_stack) \/ Len(macro_stack) < MaxMacroStack
    /\ macro_stack' =
         IF is_inactive(defcond_stack) THEN macro_stack
         ELSE Append(macro_stack,
                     DirToken(IF Directive(Concat(lv.np)) = "CurrentFile"
                              THEN "Text" ELSE "Digits"))
    /\ RetOkNow
    /\ UNCHANGED <<token, stack, log>>
    /\ UNCHANGED <<contents, macro_defs, defcond_stack, dirs>>
    /\ UNCHANGED Ghosts
    /\ UNCHANGED Fixed

DirsDefault == [celldefine |-> FALSE, default_nettype |-> NoTok]

(* Resetall, Celldefine, Endcelldefine *)
HandleFlag ==
    /\ \/ Enter("Resetall") \/ Enter("Celldefine") \/ Enter("Endcelldefine")
    /\ dirs' =
         IF is_inactive(defcond_stack) THEN dirs
         ELSE CASE Directive(Concat(lv.np)) = "Resetall" -> DirsDefault
                [] Directive(Concat(lv.np)) = "Celldefine" -> [dirs EXCEPT !.celldefine = TRUE]
                [] OTHER -> [dirs EXCEPT !.celldefine = FALSE]
    /\ RetOkNow
    /\ NoBump
    /\ UNCHANGED <<contents, macro_defs, defcond_stack>>
    /\ UNCHANGED Ghosts
    /\ UNCHANGED Fixed

(* Timescale: consume up to (not including) the next Newline. *)
HandleTimescale ==
    /\ Enter("Timescale")
    /\ pc' = "timescale"
    /\ hd' = HdStart
    /\ lv' = lv
    /\ result' = result
    /\ NoBump
    /\ UNCHANGED <<contents, macro_defs, defcond_stack, dirs>>
    /\ UNCHANGED Ghosts
    /\ UNCHANGED Fixed

TimescaleStep ==
    /\ pc = "timescale"
    /\ IF token # NoTok /\ token.k # "Newline"
       THEN /\ bump(CtxLen("line", Len(log) + 1 - Len(lv.np), 0))
            /\ Goto("timescale") /\ lv' = lv
       ELSE RetOk /\ NoBump
    /\ UNCHANGED <<contents, macro_defs, defcond_stack, dirs>>
    /\ UNCHANGED Ghosts
    /\ UNCHANGED Fixed

ErrNettype == "expected nettype after default_nettype"

HandleDefaultNettype ==
    /\ Enter("DefaultNettype")
    /\ IF is_inactive(defcond_stack)
       THEN RetOkNow /\ NoBump
       ELSE SkipWs("nettype", Ctx("loop"))
    /\ UNCHANGED <<contents, macro_defs, defcond_stack, dirs>>
    /\ UNCHANGED Ghosts
    /\ UNCHANGED Fixed

NettypeStep ==
    /\ pc = "nettype"
    /\ IF token.k = "Text"
       THEN /\ bump(Ctx("loop"))
            /\ dirs' = [dirs EXCEPT !.default_nettype =
                           IF token.x = "none" THEN NoTok ELSE token]
            /\ RetOk
       ELSE RetErr(ErrNettype) /\ NoBump /\ UNCHANGED dirs
    /\ UNCHANGED <<contents, macro_defs, defcond_stack>>
    /\ UNCHANGED Ghosts
    /\ UNCHANGED Fixed

-----------------------------------------------------------------------------
(* Define *)

ErrDefName == "expected macro name after define"
ErrArgName == "expected macro argument name"
ErrArgSep == "expected , or ) after macro argument name"
ErrArgClose == "expected closing parenthesis at the end of the macro definition"

(* A variant that processes a define in a skipped branch. *)
HandleDefineAlways ==
    /\ Enter("Define")
    /\ SkipWs("def_name", Ctx("ident0"))
    /\ UNCHANGED <<contents, macro_defs, defcond_stack, dirs>>
    /\ UNCHANGED Ghosts
    /\ UNCHANGED Fixed

HandleDefine ==
    /\ Enter("Define")
    /\ IF is_inactive(defcond_stack)
       THEN RetOkNow /\ NoBump
       ELSE SkipWs("def_name", Ctx("ident0"))
    /\ UNCHANGED <<contents, macro_defs, defcond_stack, dirs>>
    /\ UNCHANGED Ghosts
    /\ UNCHANGED Fixed

DefName ==
    /\ pc = "def_name"
    /\ NameOr("def_after_name", ErrDefName)
    /\ UNCHANGED <<contents, macro_defs, defcond_stack, dirs>>
    /\ UNCHANGED Ghosts
    /\ UNCHANGED Fixed

(* A variant that skips whitespace between the macro name and '('. *)
DefAfterNameSkipsWs ==
    /\ pc = "def_after_name"
    /\ IF token.k = "Whitespace"
       THEN bump(CtxBody(<<>>, log)) /\ Goto("def_after_name") /\ lv' = lv
       ELSE /\ lv' = [lv EXCEPT !.makro = [name |-> Concat(lv.np), args |-> <<>>, body |-> <<>>]]
            /\ IF IsSym(token, "(")
               THEN bump(Ctx("param0")) /\ Goto("def_arg_top")
               ELSE NoBump /\ Goto("def_body_ws")
    /\ UNCHANGED <<contents, macro_defs, defcond_stack, dirs>>
    /\ UNCHANGED Ghosts
    /\ UNCHANGED Fixed

(* Macro::new, then: a parameter list follows iff the look-ahead is '('. *)
DefAfterName ==
    /\ pc = "def_after_name"
    /\ lv' = [lv EXCEPT !.makro = [name |-> Concat(lv.np), args |-> <<>>, body |-> <<>>]]
    /\ IF IsSym(token, "(")
       THEN bump(Ctx("param0")) /\ Goto("def_arg_top")
       ELSE NoBump /\ Goto("def_body_ws")
    /\ UNCHANGED <<contents, macro_defs, defcond_stack, dirs>>
    /\ UNCHANGED Ghosts
    /\ UNCHANGED Fixed

(* Top of the parameter loop: skip whitespace, or leave at ')'. *)
DefArgTop ==
    /\ pc = "def_arg_top"
    /\ lv' = lv
    /\ IF token.k = "Whitespace"
       THEN bump(Ctx("param0")) /\ Goto("def_arg_name")
       ELSE IF IsSym(token, ")")
       THEN bump(CtxAfterParams) /\ Goto("def_body_ws")
       ELSE NoBump /\ Goto("def_arg_name")
    /\ UNCHANGED <<contents, macro_defs, defcond_stack, dirs>>
    /\ UNCHANGED Ghosts
    /\ UNCHANGED Fixed

DefArgName ==
    /\ pc = "def_arg_name"
    /\ Len(lv.makro.args) < MaxParams
    /\ NameOr("def_arg_after", ErrArgName)
    /\ UNCHANGED <<contents, macro_defs, defcond_stack, dirs>>
    /\ UNCHANGED Ghosts
    /\ UNCHANGED Fixed

(* The parameter is stored; whitespace after it is skipped. *)
DefArgAfter ==
    /\ pc = "def_arg_after"
    /\ lv' = [lv EXCEPT !.makro.args = Append(@, Concat(lv.np))]
    /\ IF token.k = "Whitespace" THEN bump(Ctx("loop")) ELSE NoBump
    /\ Goto("def_arg_sep")
    /\ UNCHANGED <<contents, macro_defs, defcond_stack, dirs>>
    /\ UNCHANGED Ghosts
    /\ UNCHANGED Fixed

DefArgSep ==
    /\ pc = "def_arg_sep"
    /\ IF IsSym(token, ",")
       THEN bump(Ctx("param0")) /\ Goto("def_arg_top") /\ lv' = lv
       ELSE IF IsSym(token, ")")
       THEN bump(CtxAfterParams) /\ Goto("def_body_ws") /\ lv' = lv
       ELSE IF token # NoTok
       THEN RetErr(ErrArgSep) /\ NoBump
       ELSE RetErr(ErrArgClose) /\ NoBump
    /\ UNCHANGED <<contents, macro_defs, defcond_stack, dirs>>
    /\ UNCHANGED Ghosts
    /\ UNCHANGED Fixed

(* Skip whitespace between the name or the parameters and the body. *)
DefBodyWs ==
    /\ pc = "def_body_ws"
    /\ lv' = lv
    /\ IF token.k = "Whitespace" THEN bump(CtxBody(lv.makro.body, log)) ELSE NoBump
    /\ Goto("def_body")
    /\ UNCHANGED <<contents, macro_defs, defcond_stack, dirs>>
    /\ UNCHANGED Ghosts
    /\ UNCHANGED Fixed

Insert(defs, name, makro) ==
    [n \in DOMAIN defs \cup {name} |-> IF n = name THEN makro ELSE defs[n]]

(* The body loop: up to the next Newline that no backslash precedes. *)
DefBody ==
    /\ pc = "def_body"
    /\ IF token.k = "Newline"
       THEN /\ bump(Ctx("loop"))
            /\ macro_defs' = Insert(macro_defs, lv.makro.name, lv.makro)
            /\ RetOk
       ELSE IF IsSym(token, "\\")
       THEN /\ bump(CtxBody(lv.makro.body, Append(log, token)))
            /\ Goto("def_body_bs") /\ lv' = lv
            /\ UNCHANGED macro_defs
       ELSE IF token # NoTok
       THEN /\ lv' = [lv EXCEPT !.makro.body = Append(@, token)]
            /\ bump(CtxBody(Append(lv.makro.body, token), log))
            /\ Goto("def_body")
            /\ UNCHANGED macro_defs
       ELSE /\ NoBump
            /\ macro_defs' = Insert(macro_defs, lv.makro.name, lv.makro)
            /\ RetOk
    /\ UNCHANGED <<contents, defcond_stack, dirs>>
    /\ UNCHANGED Ghosts
    /\ UNCHANGED Fixed

(* After a backslash in the body: a Newline is dropped with it. *)
DefBodyBs ==
    /\ pc = "def_body_bs"
    /\ lv' = lv
    /\ IF token.k = "Newline"
       THEN bump(CtxBody(lv.makro.body, Append(log, token)))
       ELSE NoBump
    /\ Goto("def_body")
    /\ UNCHANGED <<contents, macro_defs, defcond_stack, dirs>>
    /\ UNCHANGED Ghosts
    /\ UNCHANGED Fixed

-----------------------------------------------------------------------------
(* Undef *)

ErrUndefName == "expected macro name after undef"

HandleUndef ==
    /\ Enter("Undef")
    /\ IF is_inactive(defcond_stack)
       THEN RetOkNow /\ NoBump
       ELSE SkipWs("undef_name", Ctx("ident0"))
    /\ UNCHANGED <<contents, macro_defs, defcond_stack, dirs>>
    /\ UNCHANGED Ghosts
    /\ UNCHANGED Fixed

UndefName ==
    /\ pc = "undef_name"
    /\ NameOr("undef_after", ErrUndefName)
    /\ UNCHANGED <<contents, macro_defs, defcond_stack, dirs>>
    /\ UNCHANGED Ghosts
    /\ UNCHANGED Fixed

(* A variant that removes every definition. *)
RemoveAll(defs, name) == [n \in {} |-> NoMacro]

Remove(defs, name) == [n \in DOMAIN defs \ {name} |-> defs[n]]

UndefAfter ==
    /\ pc = "undef_after"
    /\ macro_defs' = Remove(macro_defs, Concat(lv.np))
    /\ RetOk
    /\ NoBump
    /\ UNCHANGED <<contents, defcond_stack, dirs>>
    /\ UNCHANGED Ghosts
    /\ UNCHANGED Fixed

-----------------------------------------------------------------------------
(* Macro invocation (Directive::Unknown) *)

ErrMacroParen == "expected macro parameters in parentheses '(...)'"
ErrSuperfluous == "superfluous macro parameters"
ErrArgsClose == "expected closing parenthesis after macro parameters"

(* A variant that pushes the body without substituting. *)
ReplacementVerbatim(body, params) == body

(* The replacement of a body under the bindings params: a Text token whose *)
(* text is a key is replaced by the bound tokens.                          *)
RECURSIVE Replacement(_, _)
Replacement(body, params) ==
    IF body = <<>> THEN <<>>
    ELSE LET tkn == Head(body)
         IN  (IF tkn.k = "Text" /\ tkn.x \in DOMAIN params
              THEN params[tkn.x] ELSE <<tkn>>)
             \o Replacement(Tail(body), params)

(* The reference substitution: by position in the parameter list. *)
RECURSIVE RefSubst(_, _, _)
RefSubst(body, args, caps) ==
    IF body = <<>> THEN <<>>
    ELSE LET tkn == Head(body)
             hit == {i \in DOMAIN args : tkn.k = "Text" /\ args[i] = tkn.x}
         IN  (IF hit # {} THEN caps[CHOOSE i \in hit : TRUE] ELSE <<tkn>>)
             \o RefSubst(Tail(body), args, caps)

Distinct(seq) == \A i, j \in DOMAIN seq : seq[i] = seq[j] => i = j

(* The look-ahead and the (substituted) body go onto the macro stack, the  *)
(* body in reverse; then bump.                                             *)
ExpandNow(makro, params, caps) ==
    LET la == IF token = NoTok THEN <<>> ELSE <<token>>
        replacement == IF DOMAIN params = {} THEN makro.body
                       ELSE Replacement(makro.body, params)
        pushed == macro_stack \o la \o Rev(replacement)
    IN  /\ Len(pushed) <= MaxMacroStack
        /\ \E b \in BumpSet(pushed, stack, Ctx("loop")) :
              /\ token' = b.tok
              /\ macro_stack' = b.ms
              /\ stack' = b.st
              /\ log' = Append(log, token)
        /\ expect' = IF Keeps("expect") /\ Len(caps) = Len(makro.args)
                         /\ Distinct(makro.args)
                     THEN ExpectStart(RefSubst(makro.body, makro.args, caps) \o la,
                                      Len(makro.args))
                     ELSE expect

(* A variant that expands a macro with parameters invoked without a list. *)
HandleMacroWithoutList ==
    /\ Enter("Unknown")
    /\ LET name == Concat(lv.np)
       IN  IF is_inactive(defcond_stack)
           THEN RetOkNow /\ NoBump /\ expect' = expect
           ELSE IF name \notin DOMAIN macro_defs
           THEN RetErrNow(ErrUnknown) /\ NoBump /\ expect' = expect
           ELSE IF macro_defs[name].args # <<>>
           THEN IF IsSym(token, "(")
                THEN /\ bump(CtxLen("arg", 0, 0))
                     /\ pc' = "inv_outer"
                     /\ hd' = HdStart
                     /\ result' = result
                     /\ lv' = [lv EXCEPT !.makro = macro_defs[name]]
                     /\ expect' = expect
                ELSE ExpandNow(macro_defs[name], EmptyParams, <<>>) /\ RetOkNow
           ELSE ExpandNow(macro_defs[name], EmptyParams, <<>>) /\ RetOkNow
    /\ UNCHANGED <<contents, macro_defs, defcond_stack, dirs>>
    /\ UNCHANGED <<groups, afterErr, spin, inc>>
    /\ UNCHANGED Fixed

HandleMacro ==
    /\ Enter("Unknown")
    /\ LET name == Concat(lv.np)
       IN  IF is_inactive(defcond_stack)
           THEN RetOkNow /\ NoBump /\ expect' = expect
           ELSE IF name \notin DOMAIN macro_defs
           THEN RetErrNow(ErrUnknown) /\ NoBump /\ expect' = expect
           ELSE IF macro_defs[name].args # <<>>
           THEN IF IsSym(token, "(")
                THEN /\ bump(CtxLen("arg", 0, 0))
                     /\ pc' = "inv_outer"
                     /\ hd' = HdStart
                     /\ result' = result
                     /\ lv' = [lv EXCEPT !.makro = macro_defs[name]]
                     /\ expect' = expect
                ELSE RetErrNow(ErrMacroParen) /\ NoBump /\ expect' = expect
           ELSE ExpandNow(macro_defs[name], EmptyParams, <<>>) /\ RetOkNow
    /\ UNCHANGED <<contents, macro_defs, defcond_stack, dirs>>
    /\ UNCHANGED <<groups, afterErr, spin, inc>>
    /\ UNCHANGED Fixed

(* Top of the argument loop. *)
InvOuter ==
    /\ pc = "inv_outer"
    /\ IF IsSym(token, ")")
       THEN bump(Ctx("loop")) /\ Goto("expand") /\ lv' = lv
       ELSE IF lv.argi >= Len(lv.makro.args)
       THEN RetErr(ErrSuperfluous) /\ NoBump
       ELSE /\ lv' = [lv EXCEPT !.argi = @ + 1, !.ptoks = <<>>, !.nesting = 0]
            /\ Goto("inv_arg")
            /\ NoBump
    /\ UNCHANGED <<contents, macro_defs, defcond_stack, dirs>>
    /\ UNCHANGED Ghosts
    /\ UNCHANGED Fixed

Bind(params, name, toks) ==
    [n \in DOMAIN params \cup {name} |-> IF n = name THEN toks ELSE params[n]]

(* A variant of InvArg in which every comma ends the argument. *)
InvArgFlat ==
    /\ pc = "inv_arg"
    /\ LET arg == lv.makro.args[lv.argi]
           bound == [lv EXCEPT !.params = Bind(@, arg, lv.ptoks),
                               !.caps = Append(@, lv.ptoks)]
           push(d) == [lv EXCEPT !.ptoks = Append(@, token), !.nesting = @ + d]
           more(d) == /\ lv' = push(d)
                      /\ bump(CtxLen("arg", Len(lv.ptoks) + 1, lv.nesting + d))
                      /\ Goto("inv_arg")
       IN  IF IsSym(token, ",")
           THEN bump(CtxLen("arg", 0, 0)) /\ lv' = bound /\ Goto("inv_outer")
           ELSE IF IsSym(token, ")") /\ lv.nesting = 0
           THEN bump(Ctx("loop")) /\ lv' = bound /\ Goto("expand")
           ELSE IF IsSym(token, "(") THEN more(1)
           ELSE IF IsSym(token, ")") THEN more(-1)
           ELSE IF token # NoTok THEN more(0)
           ELSE RetErr(ErrArgsClose) /\ NoBump
    /\ UNCHANGED <<contents, macro_defs, defcond_stack, dirs>>
    /\ UNCHANGED Ghosts
    /\ UNCHANGED Fixed

(* One token of the current argument. *)
InvArg ==
    /\ pc = "inv_arg"
    /\ LET arg == lv.makro.args[lv.argi]
           bound == [lv EXCEPT !.params = Bind(@, arg, lv.ptoks),
                               !.caps = Append(@, lv.ptoks)]
           push(d) == [lv EXCEPT !.ptoks = Append(@, token), !.nesting = @ + d]
           more(d) == /\ lv' = push(d)
                      /\ bump(CtxLen("arg", Len(lv.ptoks) + 1, lv.nesting + d))
                      /\ Goto("inv_arg")
       IN  IF IsSym(token, ",") /\ lv.nesting = 0
           THEN bump(CtxLen("arg", 0, 0)) /\ lv' = bound /\ Goto("inv_outer")
           ELSE IF IsSym(token, ")") /\ lv.nesting = 0
           THEN bump(Ctx("loop")) /\ lv' = bound /\ Goto("expand")
           ELSE IF IsSym(token, "(") THEN more(1)
           ELSE IF IsSym(token, ")") THEN more(-1)
           ELSE IF token # NoTok THEN more(0)
           ELSE RetErr(ErrArgsClose) /\ NoBump
    /\ UNCHANGED <<contents, macro_defs, defcond_stack, dirs>>
    /\ UNCHANGED Ghosts
    /\ UNCHANGED Fixed

(* After the closing parenthesis of the arguments. *)
Expand ==
    /\ pc = "expand"
    /\ ExpandNow(lv.makro, lv.params, lv.caps)
    /\ RetOk
    /\ UNCHANGED <<contents, macro_defs, defcond_stack, dirs>>
    /\ UNCHANGED <<groups, afterErr, spin, inc>>
    /\ UNCHANGED Fixed

-----------------------------------------------------------------------------
(* Include *)

ErrIncOpen == "expected filename inside double quotes or angular brackets after include"
ErrIncBreak == "expected end of included file's name before line break"
ErrIncEnd == "expected filename after include directive before the end of the input"
ErrIncFile == "cannot open included file"

(* open_include: the source manager knows the files of FileSys. *)
open_include(filename) ==
    IF filename \in DOMAIN FileSys THEN FileSys[filename] ELSE 0

HandleInclude ==
    /\ Enter("Include")
    /\ IF is_inactive(defcond_stack)
       THEN RetOkNow /\ NoBump
       ELSE SkipWs("inc_open", Ctx("any"))
    /\ UNCHANGED <<contents, macro_defs, defcond_stack, dirs>>
    /\ UNCHANGED Ghosts
    /\ UNCHANGED Fixed

(* The opening double quote or angular bracket. *)
IncOpen ==
    /\ pc = "inc_open"
    /\ IF IsSym(token, "\"") \/ IsSym(token, "<")
       THEN /\ bump(CtxLen("fname", 0, 0))
            /\ lv' = [lv EXCEPT !.closing = IF IsSym(token, "<") THEN ">" ELSE "\"",
                                !.filename = <<>>]
            /\ Goto("inc_name")
       ELSE RetErr(ErrIncOpen) /\ NoBump
    /\ UNCHANGED <<contents, macro_defs, defcond_stack, dirs>>
    /\ UNCHANGED Ghosts
    /\ UNCHANGED Fixed

(* A variant that does not retain the content of the included file. *)
IncNameForgetsContent ==
    /\ pc = "inc_name"
    /\ IF IsSym(token, lv.closing)
       THEN LET included_source == open_include(Concat(lv.filename))
            IN  IF included_source = 0
                THEN /\ RetErr(ErrIncFile) /\ NoBump
                     /\ UNCHANGED <<contents, inc>>
                ELSE /\ Len(contents) <= MaxIncludes
                     /\ contents' = contents
                     /\ \E b \in BumpSet(macro_stack, Append(stack, included_source),
                                         Ctx("loop")) :
                           /\ token' = b.tok
                           /\ macro_stack' = b.ms
                           /\ stack' = b.st
                           /\ log' = Append(log, token)
                           /\ inc' = IncStart(included_source, Len(stack) + 1, b)
                     /\ RetOk
       ELSE IF token.k = "Newline"
       THEN RetErr(ErrIncBreak) /\ NoBump /\ UNCHANGED <<contents, inc>>
       ELSE IF token # NoTok
       THEN /\ lv' = [lv EXCEPT !.filename = Append(@, token.x)]
            /\ bump(CtxLen("fname", Len(lv.filename) + 1, 0))
            /\ Goto("inc_name")
            /\ UNCHANGED <<contents, inc>>
       ELSE RetErr(ErrIncEnd) /\ NoBump /\ UNCHANGED <<contents, inc>>
    /\ UNCHANGED <<macro_defs, defcond_stack, dirs>>
    /\ UNCHANGED <<groups, afterErr, spin, expect>>
    /\ UNCHANGED Fixed

(* The filename loop; at the closing symbol the file is opened, its stream *)
(* pushed, and bump() called.                                              *)
IncName ==
    /\ pc = "inc_name"
    /\ IF IsSym(token, lv.closing)
       THEN LET included_source == open_include(Concat(lv.filename))
            IN  IF included_source = 0
                THEN /\ RetErr(ErrIncFile) /\ NoBump
                     /\ UNCHANGED <<contents, inc>>
                ELSE /\ Len(contents) <= MaxIncludes
                     /\ contents' = Append(contents, included_source)
                     /\ \E b \in BumpSet(macro_stack, Append(stack, included_source),
                                         Ctx("loop")) :
                           /\ token' = b.tok
                           /\ macro_stack' = b.ms
                           /\ stack' = b.st
                           /\ log' = Append(log, token)
                           /\ inc' = IncStart(included_source, Len(stack) + 1, b)
                     /\ RetOk
       ELSE IF token.k = "Newline"
       THEN RetErr(ErrIncBreak) /\ NoBump /\ UNCHANGED <<contents, inc>>
       ELSE IF token # NoTok
       THEN /\ lv' = [lv EXCEPT !.filename = Append(@, token.x)]
            /\ bump(CtxLen("fname", Len(lv.filename) + 1, 0))
            /\ Goto("inc_name")
            /\ UNCHANGED <<contents, inc>>
       ELSE RetErr(ErrIncEnd) /\ NoBump /\ UNCHANGED <<contents, inc>>
    /\ UNCHANGED <<macro_defs, defcond_stack, dirs>>
    /\ UNCHANGED <<groups, afterErr, spin, expect>>
    /\ UNCHANGED Fixed

-----------------------------------------------------------------------------
(* The constant evaluator (svlog/value.rs).  A value is (ty, kind); for a  *)
(* value of kind Int only the BigInt is modelled (no special bits).        *)

RECURSIVE Pow2(_)
Pow2(w) == IF w <= 0 THEN 1 ELSE 2 * Pow2(w - 1)

(* BigInt % and /: the quotient is truncated towards zero and the          *)
(* remainder has the sign of the dividend.                                 *)
TruncRem(a, b) == IF a >= 0 THEN a % b ELSE -((-a) % b)
TruncDiv(a, b) ==
    LET q == (IF a >= 0 THEN a ELSE -a) \div (IF b >= 0 THEN b ELSE -b)
    IN  IF (a >= 0) = (b >= 0) THEN q ELSE -q

(* Integer types: TypeKind::Int / BitVector of a width, and the scalar bit *)
(* types TypeKind::Bit / BitScalar (of width 1).                           *)
IntTy(w) == [kind |-> "Int", width |-> w]
BitTy == [kind |-> "Bit", width |-> 1]
Types == {IntTy(w) : w \in 1..MaxWidth} \cup {BitTy}

make_int_special(ty, value) ==
    IF ty.kind = "Int" THEN TruncRem(value, Pow2(ty.width)) ELSE TruncRem(value, 2)

make_int(ty, value) == make_int_special(ty, value)

const_unary_bitwise_int(size, arg) == (Pow2(size) - 1) - arg

const_unary_arith_int(arg) == -arg

RECURSIVE PowLoop(_, _, _)
PowLoop(acc, lhs, cnt) ==
    IF cnt = 0 THEN acc ELSE PowLoop(acc * lhs, lhs, cnt - 1)

(* A variant of const_binary_arith_int whose Pow starts the product from   *)
(* lhs.                                                                    *)
const_binary_arith_int_pow_from_lhs(op, lhs, rhs) ==
    CASE op = "Add" -> lhs + rhs
      [] op = "Sub" -> lhs - rhs
      [] op = "Mul" -> lhs * rhs
      [] op = "Div" -> TruncDiv(lhs, rhs)
      [] op = "Mod" -> TruncRem(lhs, IF rhs >= 0 THEN rhs ELSE -rhs)
      [] op = "Pow" -> PowLoop(lhs, lhs, rhs)

const_binary_arith_int(op, lhs, rhs) ==
    CASE op = "Add" -> lhs + rhs
      [] op = "Sub" -> lhs - rhs
      [] op = "Mul" -> lhs * rhs
      [] op = "Div" -> TruncDiv(lhs, rhs)
      [] op = "Mod" -> TruncRem(lhs, IF rhs >= 0 THEN rhs ELSE -rhs)
      [] op = "Pow" -> PowLoop(1, lhs, rhs)

Bool(b) == IF b THEN 1 ELSE 0

const_comp_int(op, lhs, rhs) ==
    CASE op = "Eq" -> Bool(lhs = rhs)
      [] op = "Neq" -> Bool(lhs # rhs)
      [] op = "Lt" -> Bool(lhs < rhs)
      [] op = "Leq" -> Bool(lhs <= rhs)
      [] op = "Gt" -> Bool(lhs > rhs)
      [] op = "Geq" -> Bool(lhs >= rhs)

(* BigInt << and >> (the latter rounds towards minus infinity). *)
Shl(v, sh) == v * Pow2(sh)
Shr(v, sh) == v \div Pow2(sh)

(* The machine integer isize, on IsizeBits bits, and BigInt::to_isize: the  *)
(* one-element sequence of the integer if it fits, the empty one if not.   *)
IsizeMin == -Pow2(IsizeBits - 1)
IsizeMax == Pow2(IsizeBits - 1) - 1
to_isize(n) == IF n >= IsizeMin /\ n <= IsizeMax THEN <<n>> ELSE <<>>

(* `-sh as usize` for sh < 0: the negation of the least isize overflows,   *)
(* which panics in a build with overflow checks and wraps in one without.  *)
Done(n) == [abort |-> FALSE, n |-> n]
Panic == [abort |-> TRUE, n |-> 0]
neg_as_usize(sh) ==
    IF sh = IsizeMin THEN {Panic, Done(Pow2(IsizeBits - 1))} ELSE {Done(-sh)}

(* const_shift_int: the outcomes the build can produce. *)
const_shift_int(op, value, amount) ==
    IF to_isize(amount) = <<>> THEN {Done(0)}
    ELSE IF amount < 0
    THEN {IF u.abort THEN Panic
          ELSE Done(IF op = "Left" THEN Shr(value, u.n) ELSE Shl(value, u.n))
            : u \in neg_as_usize(amount)}
    ELSE {Done(IF op = "Left" THEN Shl(value, amount) ELSE Shr(value, amount))}

(* The ones in the bytes of the magnitude of a BigInt. *)
RECURSIVE count_ones(_)
count_ones(n) == IF n = 0 THEN 0 ELSE (n % 2) + count_ones(n \div 2)

(* A variant of const_reduction_int whose Xor tells whether a bit is set. *)
const_reduction_int_xor_as_or(size, op, arg) ==
    CASE op = "And" -> Bool(arg = Pow2(size) - 1)
      [] op = "Or" -> Bool(arg # 0)
      [] op = "Xor" -> Bool(arg # 0)

const_reduction_int(size, op, arg) ==
    CASE op = "And" -> Bool(arg = Pow2(size) - 1)
      [] op = "Or" -> Bool(arg # 0)
      [] op = "Xor" -> Bool(count_ones(IF arg >= 0 THEN arg ELSE -arg) % 2 = 1)

(* The Const leaves: values that satisfy 0 <= n < 2^width. *)
Leaves(ty) == 0..(Pow2(ty.width) - 1)

PreVars == <<pc, token, stack, contents, macro_defs, macro_stack, defcond_stack,
             dirs, lv, result, hd, log, groups, afterErr, spin, expect, inc, scn,
             cv>>

Rv(op, ty, n) ==
    [EvInit EXCEPT !.op = op, !.ty = ty, !.n = n, !.rv = TRUE, !.bits = ty.width]

(* A value as an operand: type, kind and, for kind Int, the integer and    *)
(* the length of its bit vectors (that of a Const leaf is the width of its *)
(* type).                                                                  *)
Val(ty, kind, n) == [ty |-> ty, kind |-> kind, n |-> n, bits |-> ty.width]
make_error(ty) == Val(ty, "Error", 0)
Last_value == [Val(ev.ty, ev.kind, ev.n) EXCEPT !.bits = ev.bits]

(* The result v of an opcode of type mir_ty. *)
RvVal(op, v, operr) ==
    [EvInit EXCEPT !.op = op, !.ty = v.ty, !.kind = v.kind, !.n = v.n,
                   !.rv = TRUE, !.operr = operr, !.bits = v.bits]

is_error(v) == v.kind = "Error"
is_false(v) ==
    CASE v.kind = "Int" -> v.n = 0
      [] v.kind = "StructOrArray" -> FALSE
      [] v.kind = "Error" -> TRUE
is_true(v) == ~is_false(v)

(* Operands other than the last value: Const leaves of the scalar bit type *)
(* and the Error opcode.                                                   *)
OperandLeaves == {Val(BitTy, "Int", n) : n \in Leaves(BitTy)} \cup {make_error(BitTy)}
ArrayTy(n) == [kind |-> "Array", width |-> n]

(* make_int(ty, value) called on an arbitrary integer. *)
EvalMakeInt ==
    /\ \E ty \in Types, value \in (-MaxInt)..MaxInt :
          ev' = [EvInit EXCEPT !.op = "make_int", !.ty = ty, !.bits = ty.width,
                               !.n = make_int(ty, value), !.arg = value]
    /\ UNCHANGED PreVars

(* RvalueKind::Const(value) => value *)
EvalConst ==
    /\ \E ty \in Types : \E n \in Leaves(ty) : ev' = Rv("Const", ty, n)
    /\ UNCHANGED PreVars

WarnCast == "cast ignored during constant evaluation"

(* A variant of EvalCast that reduces an integer to the type of the cast. *)
EvalCastReduces ==
    /\ ev.rv /\ ev.kind \in {"Int", "Error"}
    /\ \E mir_ty \in Types :
          ev' = [RvVal("Cast", [Last_value EXCEPT !.ty = mir_ty,
                                                   !.n = make_int(mir_ty, ev.n)],
                       is_error(Last_value))
                 EXCEPT !.operands = <<Last_value>>, !.mir_ty = mir_ty,
                        !.diag = <<WarnCast>>]
    /\ UNCHANGED PreVars

(* The cast opcodes: the kind of the operand under the type of the cast,   *)
(* after one warning.                                                      *)
EvalCast ==
    /\ ev.rv /\ ev.kind \in {"Int", "Error"}
    /\ \E mir_ty \in Types :
          ev' = [RvVal("Cast", [Last_value EXCEPT !.ty = mir_ty], is_error(Last_value))
                 EXCEPT !.operands = <<Last_value>>, !.mir_ty = mir_ty,
                        !.diag = <<WarnCast>>]
    /\ UNCHANGED PreVars

(* The last value is the operand of an arm that matches ValueKind::Int. *)
IntOperand == ev.rv /\ ev.kind = "Int"

(* CastToBool *)
EvalCastToBool ==
    /\ ev.rv /\ ev.kind \in {"Int", "StructOrArray"}
    /\ ev' = Rv("CastToBool", BitTy, make_int(BitTy, Bool(is_true(Last_value))))
    /\ UNCHANGED PreVars

(* UnaryBitwise (Not) and IntUnaryArith (Neg) on the last value. *)
EvalUnary ==
    /\ IntOperand
    /\ \/ ev' = Rv("Not", ev.ty, make_int(ev.ty, const_unary_bitwise_int(ev.ty.width, ev.n)))
       \/ ev' = Rv("Neg", ev.ty, make_int(ev.ty, const_unary_arith_int(ev.n)))
    /\ UNCHANGED PreVars

(* IntBinaryArith on the last value and a Const leaf of its type, in       *)
(* either order.  Div and Mod by zero panic; Pow returns only for an       *)
(* exponent that is not negative (explored up to MaxExp); its loop counts  *)
(* cnt down from rhs by one until cnt is zero, so for a negative rhs it is *)
(* never left (kind Diverges).                                             *)
EvalBinaryArith ==
    /\ IntOperand
    /\ \E op \in {"Add", "Sub", "Mul", "Div", "Mod", "Pow"}, c \in Leaves(ev.ty),
          swap \in BOOLEAN :
          LET lhs == IF swap THEN c ELSE ev.n
              rhs == IF swap THEN ev.n ELSE c
          IN  /\ op \in {"Div", "Mod"} => rhs # 0
              /\ op = "Pow" => rhs <= MaxExp
              /\ ev' = [(IF op = "Pow" /\ rhs < 0
                         THEN RvVal(op, Val(ev.ty, "Diverges", 0), FALSE)
                         ELSE Rv(op, ev.ty,
                                 make_int(ev.ty, const_binary_arith_int(op, lhs, rhs))))
                          EXCEPT !.lhs = lhs, !.rhs = rhs]
    /\ UNCHANGED PreVars

(* IntComp on the last value and a Const leaf of its type. *)
EvalComp ==
    /\ IntOperand
    /\ \E op \in {"Eq", "Neq", "Lt", "Leq", "Gt", "Geq"}, c \in Leaves(ev.ty) :
          ev' = Rv(op, BitTy, make_int(BitTy, const_comp_int(op, ev.n, c)))
    /\ UNCHANGED PreVars

(* Shift of the last value by a Const leaf, or of a Const leaf by the last *)
(* value; the result has the type of the shifted value.                    *)
EvalShift ==
    /\ IntOperand
    /\ \E op \in {"Left", "Right"}, c \in Leaves(ev.ty), swap \in BOOLEAN :
          LET value == IF swap THEN c ELSE ev.n
              amount == IF swap THEN ev.n ELSE c
          IN  \E r \in const_shift_int(op, value, amount) :
                  ev' = [(IF r.abort THEN RvVal(op, Val(ev.ty, "Abort", 0), FALSE)
                          ELSE Rv(op, ev.ty, make_int(ev.ty, r.n)))
                         EXCEPT !.lhs = value, !.rhs = amount]
    /\ UNCHANGED PreVars

(* Reduction of the last value. *)
EvalReduction ==
    /\ IntOperand
    /\ \E op \in {"And", "Or", "Xor"} :
          ev' = [Rv("Reduce" \o op, BitTy,
                    make_int(BitTy, const_reduction_int(ev.ty.width, op, ev.n)))
                 EXCEPT !.lhs = ev.n, !.rhs = ev.ty.width]
    /\ UNCHANGED PreVars

(* RvalueKind::Error, and the opcodes that are not constant. *)
EvalError ==
    /\ \E mir_ty \in Types : ev' = RvVal("Error", make_error(mir_ty), FALSE)
    /\ UNCHANGED PreVars

(* The arms that test their operands with is_error before anything else:   *)
(* one operand is the last value, a second one (if the opcode has two) is  *)
(* a leaf; an Error among them gives make_error(mir_ty).                   *)
AbsorbingUnary == {"CastToBool", "UnaryBitwise", "IntUnaryArith", "Repeat",
                   "Member", "Reduction"}
AbsorbingBinary == {"BinaryBitwise", "IntBinaryArith", "IntComp", "Shift"}

EvalAbsorb ==
    /\ ev.rv /\ ev.kind \in {"Int", "Error"}
    /\ \/ /\ is_error(Last_value)
          /\ \E op \in AbsorbingUnary, mir_ty \in Types :
                ev' = RvVal(op, make_error(mir_ty), TRUE)
       \/ \E op \in AbsorbingBinary, mir_ty \in Types, other \in OperandLeaves :
             /\ is_error(Last_value) \/ is_error(other)
             /\ ev' = RvVal(op, make_error(mir_ty), TRUE)
    /\ UNCHANGED PreVars

(* ConstructArray / ConstructStruct of the last value and a leaf:          *)
(* make_array(mir_ty, elements), whatever the elements evaluate to.        *)
EvalConstruct ==
    /\ ev.rv /\ ev.kind \in {"Int", "Error"}
    /\ \E other \in OperandLeaves, swap \in BOOLEAN :
          LET elements == IF swap THEN <<other, Last_value>> ELSE <<Last_value, other>>
          IN  ev' = [RvVal("Construct", Val(ArrayTy(Len(elements)), "StructOrArray", 0),
                           \E i \in DOMAIN elements : is_error(elements[i]))
                       EXCEPT !.fields = elements]
    /\ UNCHANGED PreVars

(* Member of a StructOrArray: fields[field]. *)
EvalMember ==
    /\ ev.rv /\ ev.kind = "StructOrArray"
    /\ \E field \in DOMAIN ev.fields : ev' = RvVal("Member", ev.fields[field], FALSE)
    /\ UNCHANGED PreVars

(* BigInt | on integers that are not negative. *)
RECURSIVE BitOr(_, _)
BitOr(a, b) ==
    IF a = 0 THEN b
    ELSE IF b = 0 THEN a
    ELSE (IF a % 2 = 1 \/ b % 2 = 1 THEN 1 ELSE 0) + 2 * BitOr(a \div 2, b \div 2)

(* The loop of Concat: result <<= size of the operand; result |= operand. *)
RECURSIVE ConcatLoop(_, _)
ConcatLoop(acc, values) ==
    IF values = <<>> THEN acc
    ELSE ConcatLoop(BitOr(Shl(acc, Head(values).ty.width), Head(values).n), Tail(values))

concat_fold(values) == ConcatLoop(0, values)

(* The loop of Repeat: for _ in 0..count. *)
RECURSIVE RepeatLoop(_, _, _)
RepeatLoop(acc, count, value) ==
    IF count = 0 THEN acc
    ELSE RepeatLoop(BitOr(Shl(acc, value.ty.width), value.n), count - 1, value)

(* A variant of repeat_fold that starts from the value. *)
repeat_fold_from_value(count, value) == RepeatLoop(value.n, count, value)

repeat_fold(count, value) == RepeatLoop(0, count, value)

(* Concat of the last value and a leaf: get_int().expect(..) panics on an  *)
(* operand that is not an Int.  Operands within 0 .. 2^size - 1 are the    *)
(* only ones explored.                                                     *)
EvalConcat ==
    /\ ev.rv /\ ev.kind \in {"Int", "Error"}
    /\ ev.kind = "Int" => ev.n \in Leaves(ev.ty)
    /\ \E other \in OperandLeaves, mir_ty \in Types :
          IF is_error(Last_value) \/ is_error(other)
          THEN ev' = RvVal("Concat", Val(mir_ty, "Abort", 0), TRUE)
          ELSE ev' = [Rv("Concat", mir_ty,
                         make_int(mir_ty, concat_fold(<<Last_value, other>>)))
                      EXCEPT !.operands = <<Last_value, other>>]
    /\ UNCHANGED PreVars

(* Repeat of the last value, an Int within 0 .. 2^size - 1 (an Error is    *)
(* absorbed, see EvalAbsorb).                                              *)
EvalRepeat ==
    /\ IntOperand /\ ev.n \in Leaves(ev.ty)
    /\ \E count \in 0..MaxRepeat, mir_ty \in Types :
          ev' = [Rv("Repeat", mir_ty, make_int(mir_ty, repeat_fold(count, Last_value)))
                 EXCEPT !.operands = <<Last_value>>, !.rhs = count]
    /\ UNCHANGED PreVars

(* Ternary: the last value is the condition or one of the branches, the    *)
(* other operands are leaves; the branches have the type of the opcode.    *)
EvalTernary ==
    /\ ev.rv /\ ev.kind \in {"Int", "Error"}
    /\ \E a \in OperandLeaves, b \in OperandLeaves, role \in {"cond", "true", "false"} :
          LET acc == Last_value
              cond_val == IF role = "cond" THEN acc ELSE a
              true_val == IF role = "true" THEN acc ELSE IF role = "cond" THEN a ELSE b
              false_val == IF role = "false" THEN acc ELSE b
          IN  /\ true_val.ty = false_val.ty
              /\ ev' = [RvVal("Ternary", IF is_true(cond_val) THEN true_val ELSE false_val,
                              is_error(cond_val) \/ is_error(true_val) \/ is_error(false_val))
                          EXCEPT !.cond = cond_val.kind]
    /\ UNCHANGED PreVars

-----------------------------------------------------------------------------
(* constant_value_of / const_node on parameters and genvars.  A world is   *)
(* the HIR of three nodes (1 a value parameter, 2 a genvar declaration,    *)
(* each with or without a default or initializer, which is node 3, an      *)
(* expression) and the bindings of the parameter environments 1..MaxEnv;   *)
(* environment 0 binds nothing, and an Indirect binding of environment e   *)
(* names a node under environment e - 1, the instantiating one.            *)

Nodes == 1..3
Envs == 0..MaxEnv

NoBinding == [k |-> "None", node |-> 0, env |-> 0, v |-> 0]
Direct(v) == [k |-> "Direct", node |-> 0, env |-> 0, v |-> v]
Indirect(n, e) == [k |-> "Indirect", node |-> n, env |-> e, v |-> 0]

Hirs ==
    {[n \in Nodes |-> CASE n = 1 -> [kind |-> "ValueParam", fallback |-> d]
                        [] n = 2 -> [kind |-> "GenvarDecl", fallback |-> i]
                        [] OTHER -> [kind |-> "Expr", fallback |-> 0]]
       : d \in {0, 3}, i \in {0, 3}}

BindingsOf(e) ==
    IF e = 0 THEN {NoBinding}
    ELSE {NoBinding, Direct(7)} \cup {Indirect(n, e - 1) : n \in Nodes}

Binds ==
    {b \in [Envs -> [1..2 -> UNION {BindingsOf(e) : e \in Envs}]] :
        \A e \in Envs : \A n \in 1..2 : b[e][n] \in BindingsOf(e)}

(* ParamEnvData::find_value *)
find_value(bind, env, node) == IF node \in 1..2 THEN bind[env][node] ELSE NoBinding

(* The constant an expression folds to under an environment. *)
ExprValue(node, env) == 10 * (env + 1) + node

(* The instantiation sites param_env_contexts knows for an environment. *)
param_env_contexts(env) == IF env = 0 THEN {} ELSE {env}

COk(v) == [k |-> "ok", v |-> v]
CErr == [k |-> "err", v |-> 0]

CvNone == [hir |-> <<>>, bind |-> <<>>, node |-> 0, env |-> 0, root |-> <<0, 0>>,
           st |-> "idle", val |-> CErr, diags |-> 0]

(* const_node on (node, env): what the query turns into.  The recursive    *)
(* calls are all of the form `return cx.constant_value_of(..)`, so the     *)
(* call is replaced by the callee.                                         *)
Recurse(c, n, e) == [c EXCEPT !.node = n, !.env = e]
Return(c, val, diags) == [c EXCEPT !.st = "done", !.val = val, !.diags = @ + diags]

(* A variant of const_node that prefers the default to the bindings. *)
const_node_default_first(c) ==
    LET hir == c.hir[c.node]
        b == find_value(c.bind, c.env, c.node)
        contexts == param_env_contexts(c.env)
    IN  IF hir.kind = "Expr" THEN Return(c, COk(ExprValue(c.node, c.env)), 0)
        ELSE IF hir.fallback # 0 THEN Recurse(c, hir.fallback, c.env)
        ELSE IF b.k = "Indirect" THEN Recurse(c, b.node, b.env)
        ELSE IF b.k = "Direct" THEN Return(c, COk(b.v), 0)
        ELSE IF hir.kind = "ValueParam"
        THEN Return(c, CErr, IF contexts = {} THEN 1 ELSE Cardinality(contexts))
        ELSE Return(c, CErr, 1)

const_node(c) ==
    LET hir == c.hir[c.node]
        b == find_value(c.bind, c.env, c.node)
        contexts == param_env_contexts(c.env)
    IN  IF hir.kind = "Expr" THEN Return(c, COk(ExprValue(c.node, c.env)), 0)
        ELSE IF b.k = "Indirect" THEN Recurse(c, b.node, b.env)
        ELSE IF b.k = "Direct" THEN Return(c, COk(b.v), 0)
        ELSE IF hir.fallback # 0 THEN Recurse(c, hir.fallback, c.env)
        ELSE IF hir.kind = "ValueParam"
        THEN Return(c, CErr, IF contexts = {} THEN 1 ELSE Cardinality(contexts))
        ELSE Return(c, CErr, 1)

NonCv == <<pc, token, stack, contents, macro_defs, macro_stack, defcond_stack,
           dirs, lv, result, hd, log, groups, afterErr, spin, expect, inc, scn, ev>>

(* constant_value_of(node_id, env) is called. *)
CvCall ==
    /\ scn = "param" /\ cv.st = "idle"
    /\ \E n \in Nodes, e \in Envs :
          cv' = [cv EXCEPT !.node = n, !.env = e, !.root = <<n, e>>, !.st = "run",
                           !.val = CErr, !.diags = 0]
    /\ UNCHANGED NonCv

(* One activation of const_node. *)
CvStep ==
    /\ scn = "param" /\ cv.st = "run"
    /\ cv' = const_node(cv)
    /\ UNCHANGED NonCv

-----------------------------------------------------------------------------
(* The state after Preprocessor::new, for scenario s. *)
InitCore(s) ==
    /\ pc = "idle"
    /\ token = NoTok
    /\ stack = <<RootSrc>>
    /\ contents = <<RootSrc>>
    /\ macro_defs = Predefined(s)
    /\ macro_stack = <<>>
    /\ defcond_stack = <<>>
    /\ dirs = [celldefine |-> FALSE, default_nettype |-> NoTok]
    /\ lv = LvInit
    /\ result = RPending
    /\ hd = HdNone
    /\ log = <<>>
    /\ groups = <<>>
    /\ afterErr = FALSE
    /\ spin = FALSE
    /\ expect = ExpectInit
    /\ inc = IncInit
    /\ scn = s
    /\ ev = EvInit

InitPre(s) == InitCore(s) /\ cv = CvNone

NextCore ==
    \/ NextCall
    \/ LoopOrdinary
    \/ LoopBacktick
    \/ TickStep
    \/ NameStep

NextCondDirs ==
    \/ HandleCond
    \/ CondName
    \/ CondAfter
    \/ HandleElse
    \/ HandleEndif

NextSimple ==
    \/ HandleUndefineall
    \/ HandleCurrent
    \/ HandleFlag
    \/ HandleTimescale
    \/ TimescaleStep
    \/ HandleDefaultNettype
    \/ NettypeStep

NextDefine ==
    \/ HandleDefine
    \/ DefName
    \/ DefAfterName
    \/ DefBodyWs
    \/ DefBody

NextDefArgs ==
    \/ DefArgTop
    \/ DefArgName
    \/ DefArgAfter
    \/ DefArgSep
    \/ DefBodyBs

NextUndef ==
    \/ HandleUndef
    \/ UndefName
    \/ UndefAfter

NextMacroArgs ==
    \/ InvOuter
    \/ InvArg
    \/ Expand

NextInclude ==
    \/ HandleInclude
    \/ IncOpen
    \/ IncName

(* Sources made of conditional directives and ordinary tokens. *)
InitCond == InitPre("cond")
NextCond == NextCore \/ NextCondDirs
SpecCond == InitCond /\ [][NextCond]_vars

(* Sources in which every directive occurs. *)
InitDirs == InitPre("dirs")
NextDirs ==
    \/ NextCore
    \/ NextCondDirs
    \/ NextSimple
    \/ NextDefine
    \/ NextUndef
    \/ HandleMacro
    \/ NextInclude
SpecDirs == InitDirs /\ [][NextDirs]_vars

(* Sources that change the macro table, from the root file and from an     *)
(* included file, among directives that do not.                            *)
InitTable == InitPre("table")
NextTable ==
    \/ NextCore
    \/ NextCondDirs
    \/ HandleUndefineall
    \/ HandleCurrent
    \/ HandleTimescale
    \/ TimescaleStep
    \/ NextDefine
    \/ NextUndef
    \/ HandleMacro
    \/ NextInclude
SpecTable == InitTable /\ [][NextTable]_vars

(* Sources that invoke the macros predefined at construction. *)
InitPredef == InitPre("predef")
NextPredef == NextCore \/ HandleMacro
SpecPredef == InitPredef /\ [][NextPredef]_vars

(* Sources that define and invoke macros whose names are made of several   *)
(* tokens, and in which every escape occurs after a backtick.              *)
InitName == InitPre("name")
NextName == NextCore \/ NextDefine \/ DefBodyBs \/ HandleMacro
SpecName == InitName /\ [][NextName]_vars

(* Sources that define and invoke macros with and without parameters. *)
InitMacro == InitPre("macro")
NextMacro ==
    \/ NextCore
    \/ NextDefine
    \/ NextDefArgs
    \/ HandleMacro
    \/ NextMacroArgs
SpecMacro == InitMacro /\ [][NextMacro]_vars

(* Queries of the constant value of parameters and genvars. *)
InitParam ==
    /\ InitCore("param")
    /\ cv \in {[CvNone EXCEPT !.hir = h, !.bind = b] : h \in Hirs, b \in Binds}
NextParam == CvCall \/ CvStep
SpecParam == InitParam /\ [][NextParam]_vars

(* Constant evaluation of opcode trees over Const leaves. *)
InitEval == InitPre("eval")
NextEval ==
    \/ EvalMakeInt
    \/ EvalConst
    \/ EvalCast
    \/ EvalCastToBool
    \/ EvalUnary
    \/ EvalBinaryArith
    \/ EvalComp
    \/ EvalShift
    \/ EvalReduction
    \/ EvalError
    \/ EvalAbsorb
    \/ EvalConstruct
    \/ EvalMember
    \/ EvalConcat
    \/ EvalRepeat
    \/ EvalTernary
SpecEval == InitEval /\ [][NextEval]_vars

(* Sources that include a file, directly or from a macro body. *)
InitInclude == InitPre("include")
NextIncl ==
    \/ NextCore
    \/ NextDefine
    \/ HandleMacro
    \/ NextInclude
SpecInclude == InitInclude /\ [][NextIncl]_vars

-----------------------------------------------------------------------------
(* Claims *)

OrdinaryRead == pc = "loop" /\ token # NoTok /\ ~IsSym(token, BT)
Emitted(t) == pc' = "idle" /\ result' = ROk(t)

(* C1: an ordinary token read by the main loop is emitted iff every open   *)
(* conditional group is in a branch that was selected when its directive   *)
(* was processed (guard true, no earlier branch of the group selected);    *)
(* and no group ever has tokens emitted from two of its branches.          *)
C1_ConditionalEmission ==
    /\ [][OrdinaryRead => (Emitted(token) <=> RefLive(groups))]_vars
    /\ [](\A i \in DOMAIN groups : ~(groups[i].early /\ groups[i].now))

(* C1 witness: a token was emitted inside the `else branch of a group      *)
(* nested in another group.                                                *)
C1_Witness ==
    /\ pc = "idle" /\ result.k = "ok"
    /\ Len(groups) = 2 /\ groups[2].now /\ groups[1].now
    /\ defcond_stack = <<"Enabled", "Enabled">>
    /\ hd = HdNone

Conditionals == {"Ifdef", "Ifndef", "Elsif", "Else", "Endif"}

(* handle_directive is entered, while inactive, for one of: define, undef, *)
(* undefineall, include, resetall, celldefine, endcelldefine,              *)
(* default_nettype, __FILE__, __LINE__, a macro invocation.                *)
InactiveOther ==
    /\ pc = "dispatch"
    /\ is_inactive(defcond_stack)
    /\ Directive(Concat(lv.np)) \notin Conditionals \cup {"Timescale"}

(* C2: while inactive, the handling of a directive other than the          *)
(* conditional ones returns at once: macro_defs, dirs, the stream stack,   *)
(* contents, macro_stack (and the look-ahead) are unchanged and no token   *)
(* is emitted; and an active use of a name that is not defined (such as    *)
(* one whose define stood in a skipped branch) is the fatal "unknown       *)
(* compiler directive".                                                    *)
C2_InactiveFrame ==
    /\ [][InactiveOther =>
            /\ UNCHANGED <<macro_defs, dirs, stack, contents, macro_stack, token>>
            /\ pc' = "loop"
            /\ result' = result]_vars
    /\ []((hd.dir = "Unknown" /\ hd.active /\ ~hd.defined /\ hd.st # "running")
            => (hd.st = "err" /\ hd.msg = ErrUnknown))

(* C2 witness: a define in a skipped branch has been handled, and the name *)
(* it would have defined is not defined.                                   *)
C2_Witness ==
    /\ pc = "loop"
    /\ hd.dir = "Define" /\ hd.st = "ok" /\ ~hd.active
    /\ defcond_stack = <<"Disabled">>
    /\ DOMAIN macro_defs = {}

(* C3: once next() has returned Err, every later call returns None. *)
C3_FatalStopsStream == (afterErr /\ pc = "idle") => result.k = "none"

(* C4: a call of next() at exhausted input returns None: the main loop     *)
(* never ends an iteration, without returning, in the state it began in.   *)
C4_EofReturnsNone == ~spin

RECURSIVE NameEnd(_, _)
NameEnd(l, j) == IF j <= Len(l) /\ IsNameCont(l[j]) THEN NameEnd(l, j + 1) ELSE j

DefLine ==
    LET i == IF Len(log) >= 2 /\ log[2].k = "Whitespace" THEN 3 ELSE 2
        r == NameEnd(log, i + 1)
    IN  [name |-> Concat([j \in 1..(r - i) |-> log[i + j - 1].x]), r |-> r]

DefineDone == pc = "loop" /\ hd.dir = "Define" /\ hd.st = "ok" /\ hd.active

(* An active invocation of a macro stored without parameters. *)
InvokeNoParams ==
    /\ pc = "dispatch" /\ ~is_inactive(defcond_stack)
    /\ Concat(lv.np) \in DOMAIN macro_defs
    /\ macro_defs[Concat(lv.np)].args = <<>>

(* C7: a stored macro has parameters only if the token immediately after   *)
(* its name in the define was '('; if Whitespace and then '(' followed the *)
(* name, the macro is stored without parameters and its body starts with   *)
(* that '(' token; and invoking a macro stored without parameters consumes *)
(* nothing and serves its body, then the look-ahead.                       *)
C7_ParameterListRule ==
    /\ [](DefineDone =>
            LET r == DefLine.r
                m == macro_defs[DefLine.name]
            IN  /\ DefLine.name \in DOMAIN macro_defs
                /\ m.args # <<>> => (r <= Len(log) /\ IsSym(log[r], "("))
                /\ (r < Len(log) /\ log[r].k = "Whitespace" /\ IsSym(log[r + 1], "("))
                      => (m.args = <<>> /\ m.body # <<>> /\ m.body[1] = log[r + 1]))
    /\ [][InvokeNoParams =>
            macro_stack' \o (IF token' = NoTok THEN <<>> ELSE <<token'>>) =
                macro_stack \o (IF token = NoTok THEN <<>> ELSE <<token>>)
                            \o Rev(macro_defs[Concat(lv.np)].body)]_vars

(* C7 witness: the body of a macro defined as "M (a)" has been emitted up  *)
(* to its closing parenthesis by an invocation without arguments.          *)
C7_Witness ==
    /\ pc = "idle" /\ result.k = "ok" /\ IsSym(result.tok, ")")
    /\ "M" \in DOMAIN macro_defs
    /\ macro_defs["M"].args = <<>>
    /\ Len(macro_defs["M"].body) = 3
    /\ IsSym(macro_defs["M"].body[1], "(")
    /\ expect.need # <<>> /\ Len(expect.need) <= 1 /\ ~expect.bad

(* C8: after an active include has pushed the stream of the included      *)
(* file, and until that stream is exhausted and popped, every token that   *)
(* next() returns is a token of the included file.                         *)
C8_IncludedFileFirst == ~inc.bad

(* C6: while active, the handling of a backtick-name ends with the fatal   *)
(* "unknown compiler directive" iff the name is neither in the directive   *)
(* table nor a key of macro_defs.                                          *)
C6_UnknownIff ==
    (hd.active /\ hd.st \in {"ok", "err"}) =>
        ((hd.st = "err" /\ hd.msg = ErrUnknown)
            <=> (hd.name \notin DOMAIN DIRECTIVES_TABLE /\ ~hd.defined))

(* C9: the integer stored by make_int(ty, n) is the residue of n modulo    *)
(* 2^w in 0 .. 2^w - 1, where w is the width of ty (1 for a scalar bit     *)
(* type).                                                                  *)
C9_MakeIntReduction ==
    ev.op = "make_int" =>
        ev.n = ((ev.arg % Pow2(ev.ty.width)) + Pow2(ev.ty.width)) % Pow2(ev.ty.width)

(* C10: every Int value returned by const_mir_rvalue stores an integer n   *)
(* with 0 <= n < 2^width, width being that of the value's type.            *)
C10_IntRange == ev.rv => (0 <= ev.n /\ ev.n < Pow2(ev.ty.width))

(* C11: an opcode with operands, at least one of which evaluates to Error, *)
(* evaluates without aborting to a value of kind Error of the opcode's     *)
(* type.                                                                   *)
C11_ErrorAbsorption == (ev.rv /\ ev.operr) => ev.kind = "Error"

(* C12: a Ternary whose condition evaluates to Error evaluates to Error,   *)
(* whatever its branches are.                                              *)
C12_TernaryErrorCond == (ev.op = "Ternary" /\ ev.cond = "Error") => ev.kind = "Error"

(* handle_directive returns in this step, with a status of sts, from the   *)
(* handling of a directive of ds.                                          *)
Returns(ds, sts) ==
    /\ hd.st \notin {"ok", "err"}
    /\ hd'.st \in sts
    /\ hd'.dir \in ds

Count(b) == IF b THEN 1 ELSE 0

(* C13 as stated: the length of defcond_stack is the number of `ifdef and  *)
(* `ifndef directives processed minus the number of `endif directives      *)
(* processed successfully: every processed `ifdef / `ifndef adds one       *)
(* entry, every successful `endif removes one, nothing else changes the    *)
(* length.                                                                 *)
C13_StackDepth ==
    [][Len(defcond_stack') - Len(defcond_stack) =
          Count(Returns({"Ifdef", "Ifndef"}, {"ok", "err"})) -
          Count(Returns({"Endif"}, {"ok"}))]_vars

(* C13 amended: as C13, counting the `ifdef / `ifndef directives processed *)
(* successfully (those followed by a macro name).                          *)
C13_StackDepthOfSuccessful ==
    [][Len(defcond_stack') - Len(defcond_stack) =
          Count(Returns({"Ifdef", "Ifndef"}, {"ok"})) -
          Count(Returns({"Endif"}, {"ok"}))]_vars

(* C13 witness: an `endif has closed the inner of two groups, the outer    *)
(* one being in a skipped branch.                                          *)
C13_Witness ==
    /\ hd.dir = "Endif" /\ hd.st = "ok"
    /\ Len(defcond_stack) = 1 /\ is_inactive(defcond_stack)

(* The handling of `else, `endif or `elsif is under way on an empty        *)
(* defcond_stack.                                                          *)
Unmatched ==
    /\ defcond_stack = <<>>
    /\ \/ pc = "dispatch" /\ Directive(Concat(lv.np)) \in {"Elsif", "Else", "Endif"}
       \/ hd.st = "running" /\ hd.dir = "Elsif"

(* C14: `else, `endif and `elsif NAME on an empty defcond_stack return a   *)
(* fatal diagnostic; defcond_stack stays empty and macro_defs unchanged.   *)
C14_UnmatchedIsFatal ==
    [][Unmatched =>
          /\ defcond_stack' = <<>>
          /\ macro_defs' = macro_defs
          /\ hd'.st # "ok"
          /\ (hd'.st = "err" => pc' = "idle" /\ result'.k = "err")
          /\ (pc = "cond_after" =>
                 hd'.st = "err" /\ result' = RErr(ErrElsif))
          /\ (pc = "dispatch" /\ Directive(Concat(lv.np)) = "Else" =>
                 result' = RErr(ErrElse))
          /\ (pc = "dispatch" /\ Directive(Concat(lv.np)) = "Endif" =>
                 result' = RErr(ErrEndif))]_vars

(* C14 witness: `elsif followed by a name has returned the diagnostic of   *)
(* an unmatched `elsif.                                                    *)
C14_Witness ==
    /\ pc = "idle" /\ result = RErr(ErrElsif)
    /\ hd.dir = "Elsif" /\ defcond_stack = <<>>

(* C15: an active `undefineall leaves macro_defs empty, whatever it held    *)
(* (predefined macros, macros of earlier defines, after an earlier          *)
(* `undefineall or not).                                                    *)
C15_UndefineallClears ==
    /\ [][(pc = "dispatch" /\ Directive(Concat(lv.np)) = "Undefineall"
             /\ ~is_inactive(defcond_stack))
            => DOMAIN macro_defs' = {}]_vars
    /\ []((hd.dir = "Undefineall" /\ hd.active /\ hd.st \in {"ok", "err"})
            => DOMAIN macro_defs = {})

(* C15 witness: handle_directive has returned from an active `undefineall. *)
C15_Witness ==
    /\ hd.dir = "Undefineall" /\ hd.active /\ hd.st \in {"ok", "err"}
    /\ DOMAIN macro_defs = {}
    /\ defcond_stack = <<"Enabled">>

(* The keys other than name are bound in both tables to the same macros. *)
SameExcept(old, new, name) ==
    /\ DOMAIN new \ {name} = DOMAIN old \ {name}
    /\ \A n \in DOMAIN old \ {name} : new[n] = old[n]

(* C16: a step changes macro_defs only if it ends the handling of an       *)
(* active `define (the named key is bound, the others are untouched), of   *)
(* an active `undef (the named key is removed, the others are untouched)   *)
(* or is an active `undefineall; an active `undef of a name that is not    *)
(* defined changes nothing and returns no diagnostic.                      *)
C16_MacroTableFrame ==
    /\ [][macro_defs' # macro_defs =>
            \/ /\ Returns({"Define"}, {"ok"}) /\ hd.active
               /\ lv.makro.name \in DOMAIN macro_defs'
               /\ SameExcept(macro_defs, macro_defs', lv.makro.name)
            \/ /\ Returns({"Undef"}, {"ok"}) /\ hd.active
               /\ Concat(lv.np) \notin DOMAIN macro_defs'
               /\ SameExcept(macro_defs, macro_defs', Concat(lv.np))
            \/ /\ pc = "dispatch" /\ Directive(Concat(lv.np)) = "Undefineall"
               /\ ~is_inactive(defcond_stack)]_vars
    /\ [][(pc = "undef_after" /\ Concat(lv.np) \notin DOMAIN macro_defs) =>
            (macro_defs' = macro_defs /\ hd'.st = "ok" /\ result' = result)]_vars

(* C16 witness: the included file has ended and a macro defined in it,     *)
(* beside the predefined one removed by an `undef, is defined.             *)
C16_Witness ==
    /\ stack = <<RootSrc>> /\ Len(contents) = 2
    /\ pc = "idle" /\ result.k = "ok" /\ result.tok.src = RootSrc
    /\ DOMAIN macro_defs = {"B"}
    /\ macro_defs["B"].body # <<>> /\ macro_defs["B"].body[1].src = IncSrc

(* C17, of the tokens emitted for the invocation of a macro predefined     *)
(* with Some(body): each is a token of the categorization of body and its  *)
(* span extracts to that token's own text (so that the texts of the        *)
(* emitted tokens concatenate to body).                                    *)
C17_PredefinedTokenText ==
    (pc = "idle" /\ result.k = "ok" /\ result.tok.src = AnonSrc) =>
        \E n \in DOMAIN PredefValues(scn) :
            \E i \in DOMAIN Cat(PredefValues(scn)[n]) :
                result.tok = At(Cat(PredefValues(scn)[n])[i], AnonSrc)

(* C18: `ifdef NAME / `ifndef NAME push Done when the preprocessor is       *)
(* inactive; otherwise `ifdef pushes Enabled if NAME is defined and         *)
(* Disabled if not, and `ifndef the reverse.                                *)
C18_IfdefPushRule ==
    [][Returns({"Ifdef", "Ifndef"}, {"ok"}) =>
          LET defined == Concat(lv.np) \in DOMAIN macro_defs
              entry == IF is_inactive(defcond_stack) THEN "Done"
                       ELSE IF hd.dir = "Ifdef"
                       THEN (IF defined THEN "Enabled" ELSE "Disabled")
                       ELSE (IF defined THEN "Disabled" ELSE "Enabled")
          IN  defcond_stack' = Append(defcond_stack, entry)]_vars

(* C18 witness: an `ifndef inside a skipped branch has pushed Done. *)
C18_Witness ==
    /\ hd.dir = "Ifndef" /\ hd.st = "ok"
    /\ defcond_stack = <<"Disabled", "Done">>

(* C19: `elsif NAME on a non-empty stack replaces the top: Done and         *)
(* Enabled by Done; Disabled by Done if the stack without its top is        *)
(* inactive, else by Enabled if NAME is defined and by Disabled if not; the *)
(* entries below are unchanged.                                             *)
C19_ElsifTransition ==
    [][(Returns({"Elsif"}, {"ok", "err"}) /\ pc = "cond_after" /\ defcond_stack # <<>>) =>
          LET top == Last(defcond_stack)
              below == Front(defcond_stack)
              entry == IF top \in {"Done", "Enabled"} THEN "Done"
                       ELSE IF is_inactive(below) THEN "Done"
                       ELSE IF Concat(lv.np) \in DOMAIN macro_defs THEN "Enabled"
                       ELSE "Disabled"
          IN  defcond_stack' = Append(below, entry)]_vars

(* C19 witness: an `elsif has enabled the second branch of a nested group. *)
C19_Witness ==
    /\ hd.dir = "Elsif" /\ hd.st = "ok"
    /\ defcond_stack = <<"Enabled", "Enabled">>

(* C20: `else on a non-empty stack replaces the top: Disabled by Enabled,   *)
(* Enabled and Done by Done; the entries below are unchanged; and an `else  *)
(* or `elsif on a top that is Enabled or Done (as every top is after an     *)
(* `else) leaves it Done.                                                   *)
C20_ElseTransition ==
    /\ [][(pc = "dispatch" /\ Directive(Concat(lv.np)) = "Else" /\ defcond_stack # <<>>) =>
            LET top == Last(defcond_stack)
                entry == CASE top = "Disabled" -> "Enabled"
                           [] top = "Enabled" -> "Done"
                           [] top = "Done" -> "Done"
            IN  /\ defcond_stack' = Append(Front(defcond_stack), entry)
                /\ hd'.st = "ok"]_vars
    /\ [][(/\ Returns({"Else", "Elsif"}, {"ok", "err"})
           /\ defcond_stack # <<>>
           /\ Last(defcond_stack) \in {"Enabled", "Done"}
           /\ pc \in {"dispatch", "cond_after"})
            => (defcond_stack' # <<>> /\ Last(defcond_stack') = "Done")]_vars

(* C20 witness: a second `else in a group has left its entry Done. *)
C20_Witness ==
    /\ hd.dir = "Else" /\ hd.st = "ok"
    /\ defcond_stack = <<"Enabled", "Done">>
    /\ Len(groups) = 2 /\ groups[2].taken /\ ~groups[2].live

(* What the claim C21 says of the state bump() leaves behind when called   *)
(* with the macro stack ms and the stream stack st.                        *)
Advanced(ms, st) ==
    IF ms # <<>>
    THEN token' = Last(ms) /\ macro_stack' = Front(ms) /\ stack' = st
    ELSE /\ macro_stack' = <<>>
         /\ IsPrefix(stack', st)
         /\ token' = NoTok <=> stack' = <<>>
         /\ token' # NoTok => token'.src = Last(stack')

(* The steps that push onto macro_stack or onto the stream stack. *)
Pushes ==
    \/ pc = "dispatch" /\ Directive(Concat(lv.np)) \in {"Unknown", "CurrentFile", "CurrentLine"}
    \/ pc = "expand"
    \/ pc = "inc_name" /\ IsSym(token, lv.closing)

(* C21: a step that changes the look-ahead, macro_stack or the stream      *)
(* stack without pushing is a bump(): the look-ahead is the popped top of  *)
(* a non-empty macro_stack, the streams untouched; otherwise the next      *)
(* token of the topmost stream that yields one, the exhausted streams      *)
(* above it popped, and None only with every stream popped.  The bump()    *)
(* that ends an include does the same on the stack with the new stream.    *)
C21_Advance ==
    /\ [][(~Pushes /\ <<token, macro_stack, stack>>' # <<token, macro_stack, stack>>)
            => Advanced(macro_stack, stack)]_vars
    /\ [][(pc = "inc_name" /\ Len(contents') > Len(contents))
            => Advanced(macro_stack, Append(stack, Last(contents')))]_vars

(* C21 witness: the included file and the root file are exhausted, both    *)
(* streams were popped and next() has returned None.                       *)
C21_Witness ==
    /\ pc = "idle" /\ result = RNone
    /\ stack = <<>> /\ Len(contents) = 2 /\ macro_stack = <<>> /\ token = NoTok

Invokes ==
    /\ pc = "dispatch" /\ Directive(Concat(lv.np)) = "Unknown"
    /\ ~is_inactive(defcond_stack)
    /\ Concat(lv.np) \in DOMAIN macro_defs

(* C23: an active invocation of a macro with parameters whose name is not  *)
(* followed at once by '(' returns a fatal diagnostic and pushes nothing   *)
(* onto macro_stack; an invocation of a macro without parameters followed  *)
(* by '(' leaves that '(' to be read after the body.                       *)
C23_InvocationParenthesis ==
    /\ [][(Invokes /\ macro_defs[Concat(lv.np)].args # <<>> /\ ~IsSym(token, "("))
            => /\ pc' = "idle" /\ result' = RErr(ErrMacroParen)
               /\ macro_stack' = macro_stack
               /\ token' = token /\ stack' = stack]_vars
    /\ [][(Invokes /\ macro_defs[Concat(lv.np)].args = <<>> /\ IsSym(token, "("))
            => macro_stack' \o <<token'>> =
                 macro_stack \o <<token>> \o Rev(macro_defs[Concat(lv.np)].body)]_vars

(* C23 witness: the invocation of a macro with a parameter, followed by    *)
(* whitespace, has returned the diagnostic.                                *)
C23_Witness ==
    /\ pc = "idle" /\ result = RErr(ErrMacroParen)
    /\ token.k = "Whitespace"
    /\ hd.name \in DOMAIN macro_defs /\ macro_defs[hd.name].args # <<>>

(* The tokens from the '(' that opens the argument list of the invocation  *)
(* on: the name of a macro holds no '(', so it is the first one consumed.  *)
RECURSIVE AfterOpen(_)
AfterOpen(toks) ==
    IF toks = <<>> THEN <<>>
    ELSE IF IsSym(Head(toks), "(") THEN Tail(toks)
    ELSE AfterOpen(Tail(toks))

(* The arguments of a list of tokens: cut at every ',' outside nested      *)
(* parentheses, every other token kept in order; what stands between the   *)
(* last such ',' (or the opening parenthesis) and the closing parenthesis  *)
(* is an argument when it holds a token.                                   *)
RECURSIVE SplitArgs(_, _, _, _)
SplitArgs(toks, depth, cur, done) ==
    IF toks = <<>> THEN IF cur = <<>> THEN done ELSE Append(done, cur)
    ELSE LET t == Head(toks)
         IN  IF depth = 0 /\ IsSym(t, ",")
             THEN SplitArgs(Tail(toks), 0, <<>>, Append(done, cur))
             ELSE SplitArgs(Tail(toks),
                            depth + (IF IsSym(t, "(") THEN 1
                                     ELSE IF IsSym(t, ")") THEN -1 ELSE 0),
                            Append(cur, t), done)

NameCalls == {"tick", "cond_name", "def_name", "def_arg_name", "undef_name"}

(* The last tokens consumed are a Text or '_' followed by Text, Digits and *)
(* '_' tokens whose texts are the parts of the name read.                  *)
NameRun ==
    LET n == Len(lv.np)
        run == SubSeq(log, Len(log) - n + 1, Len(log))
    IN  /\ n >= 1 /\ n <= Len(log)
        /\ IsNameStart(run[1])
        /\ \A i \in 1..n : IsNameCont(run[i]) /\ run[i].x = lv.np[i]

(* C25: try_eat_name succeeds iff the look-ahead is a Text token or '_';   *)
(* a failing call consumes nothing; a successful one ends only at a        *)
(* look-ahead that is not Text, Digits or '_', which it leaves in place,   *)
(* and the name is the concatenation of the texts of the run of tokens     *)
(* consumed, so that a definition is stored under that one name.           *)
C25_IdentifierFormation ==
    /\ [][(pc \in NameCalls) => (pc' = "name" <=> IsNameStart(token))]_vars
    /\ [][(pc \in NameCalls \ {"tick"} /\ ~IsNameStart(token))
            => /\ token' = token /\ log' = log
               /\ macro_stack' = macro_stack /\ stack' = stack]_vars
    /\ [][(pc = "name" /\ pc' # "name")
            => /\ ~IsNameCont(token) /\ token' = token /\ log' = log
               /\ NameRun]_vars
    /\ [][(pc = "def_after_name") => lv'.makro.name = Concat(lv.np) /\ NameRun]_vars
    /\ [](\A n \in DOMAIN macro_defs : macro_defs[n].name = n)

(* C25 witness: AXI_21 alone is defined, and a token of its body, which   *)
(* occurs in no other place of the source, has been emitted.               *)
C25_Witness ==
    /\ pc = "idle" /\ result.k = "ok" /\ result.tok.x = "x"
    /\ DOMAIN macro_defs = {Concat(AXI_21)}
    /\ Len(macro_defs[Concat(AXI_21)].body) = 1

(* A token left by `__FILE__ or `__LINE__: its span is that directive. *)
IsDirTok(t) == t.x \in {BT \o "__FILE__", BT \o "__LINE__"}

(* C26: the token of an active `__FILE__ / `__LINE__ is emitted before     *)
(* every token that follows the directive in the input: when any other     *)
(* token has been emitted, no token of such a directive is still waiting   *)
(* as the look-ahead or on macro_stack.                                    *)
C26_CurrentBeforeFollowing ==
    (pc = "idle" /\ result.k = "ok" /\ ~IsDirTok(result.tok)) =>
        /\ ~IsDirTok(token)
        /\ \A i \in DOMAIN macro_stack : ~IsDirTok(macro_stack[i])

(* C27: after a backtick that no identifier follows, a '"' or a '\' is     *)
(* consumed and, while active, is the token emitted; a second backtick is  *)
(* consumed and nothing is emitted for the pair; any other look-ahead, the *)
(* end of the input included, gives the fatal diagnostic; and no backtick  *)
(* is ever emitted.                                                        *)
C27_BacktickEscapes ==
    /\ [][(pc = "tick" /\ ~IsNameStart(token)) =>
            IF IsSym(token, "\"") \/ IsSym(token, "\\")
            THEN /\ log' = Append(log, token)
                 /\ ~is_inactive(defcond_stack) => pc' = "idle" /\ result' = ROk(token)
            ELSE IF IsSym(token, BT)
            THEN log' = Append(log, token) /\ pc' = "loop" /\ result' = result
            ELSE /\ pc' = "idle" /\ result' = RErr(ErrBacktick)
                 /\ token' = token /\ log' = log]_vars
    /\ [](result.k = "ok" => ~IsSym(result.tok, BT))
    /\ [][(pc = "loop" /\ IsSym(token, BT)) => pc' = "tick" /\ result' = result]_vars

(* C27 witness: the '\' after a backtick is the one token consumed since  *)
(* the backtick, and has been emitted.                                     *)
C27_Witness ==
    /\ pc = "idle" /\ result.k = "ok" /\ IsSym(result.tok, "\\")
    /\ log = <<result.tok>> /\ lv = LvInit

(* C28: in the body loop of an active define, every token is appended to   *)
(* the body verbatim except a Newline and a '\' immediately followed by a  *)
(* Newline; the Newline that no '\' precedes is consumed, ends the body    *)
(* and stores the macro; the Newline after a '\' is consumed and dropped.  *)
C28_DefineBody ==
    /\ [][(/\ pc = "def_body" /\ token # NoTok /\ token.k # "Newline"
           /\ ~(IsSym(token, "\\") /\ token'.k = "Newline"))
            => lv'.makro.body = Append(lv.makro.body, token)]_vars
    /\ [][(pc = "def_body" /\ token.k = "Newline")
            => /\ macro_defs' = Insert(macro_defs, lv.makro.name, lv.makro)
               /\ log' = Append(log, token)
               /\ result' = result /\ pc' = "loop"]_vars
    /\ [][(pc = "def_body_bs" /\ token.k = "Newline")
            => lv'.makro.body = lv.makro.body /\ log' = Append(log, token)]_vars

(* C29: while inactive, next() returns a diagnostic only for a conditional *)
(* directive (an `ifdef, `ifndef or `elsif without a name; `else, `elsif   *)
(* and `endif find a non-empty stack); everything else in the skipped      *)
(* region is discarded without one.                                        *)
C29_SkippedTextIsSilent ==
    (pc = "idle" /\ result.k = "err" /\ is_inactive(defcond_stack)) =>
        hd.st = "err" /\ hd.dir \in {"Ifdef", "Ifndef", "Elsif"}

(* C30: IntBinaryArith{Pow} on operands lhs >= 0 and rhs >= 0 returns an   *)
(* Int whose value is lhs to the power rhs (1 when rhs = 0, also for       *)
(* lhs = 0) reduced to the width of the opcode's type; and 3 to the power  *)
(* 4 at width 8 is 81.                                                     *)
C30_PowFold ==
    /\ (ev.op = "Pow" /\ ev.lhs >= 0 /\ ev.rhs >= 0) =>
          /\ ev.rv /\ ev.kind = "Int"
          /\ ev.n = (IF ev.rhs = 0 THEN 1 ELSE ev.lhs ^ ev.rhs) % Pow2(ev.ty.width)
    /\ make_int(IntTy(8), const_binary_arith_int("Pow", 3, 4)) = 81

(* C30 witness: zero to the power zero has been folded to 1 at the largest *)
(* width.                                                                  *)
C30_Witness ==
    /\ ev.op = "Pow" /\ ev.lhs = 0 /\ ev.rhs = 0 /\ ev.n = 1
    /\ ev.ty = IntTy(MaxWidth)

(* The bits of n that are set, among the lowest w. *)
SetBits(n, w) == {i \in 0..(w - 1) : (n \div Pow2(i)) % 2 = 1}

(* C31: on an argument of width w with 0 <= arg < 2^w, Reduction{And} is   *)
(* 1 iff arg = 2^w - 1, Reduction{Or} 1 iff arg # 0 and Reduction{Xor} 1   *)
(* iff an odd number of bits of arg is set; the result is a bit, 0 or 1;   *)
(* Xor gives 1 on 0b1011 and 0 on 0b1010 at width 4.                       *)
C31_ReductionFold ==
    /\ (ev.op \in {"ReduceAnd", "ReduceOr", "ReduceXor"}
          /\ ev.lhs >= 0 /\ ev.lhs < Pow2(ev.rhs)) =>
          /\ ev.kind = "Int" /\ ev.ty = BitTy /\ ev.n \in {0, 1}
          /\ ev.op = "ReduceAnd" => (ev.n = 1 <=> ev.lhs = Pow2(ev.rhs) - 1)
          /\ ev.op = "ReduceOr" => (ev.n = 1 <=> ev.lhs # 0)
          /\ ev.op = "ReduceXor" =>
                (ev.n = 1 <=> Cardinality(SetBits(ev.lhs, ev.rhs)) % 2 = 1)
    /\ make_int(BitTy, const_reduction_int(4, "Xor", 11)) = 1
    /\ make_int(BitTy, const_reduction_int(4, "Xor", 10)) = 0

(* C31 witness: Reduction{Xor} of 0b111 at width 3 has given 1. *)
C31_Witness ==
    ev.op = "ReduceXor" /\ ev.lhs = 7 /\ ev.rhs = 3 /\ ev.n = 1

(* The integer whose digits, most significant first, are the operands,     *)
(* each on as many bits as its type has.                                   *)
RECURSIVE Juxtaposed(_)
Juxtaposed(values) ==
    IF values = <<>> THEN 0
    ELSE Last(values).n + Pow2(Last(values).ty.width) * Juxtaposed(Front(values))

(* C32: Concat over in-range integer operands returns the integer made of  *)
(* the operands side by side, the first in the most significant position,  *)
(* reduced to the opcode's type; Repeat(count, v) returns what Concat of   *)
(* count copies of v returns, for every count >= 0, and 0 for count = 0.   *)
C32_ConcatRepeat ==
    /\ (ev.op = "Concat" /\ ev.kind = "Int") =>
          ev.n = make_int(ev.ty, Juxtaposed(ev.operands))
    /\ ev.op = "Repeat" /\ ev.kind = "Int" =>
          /\ ev.n = make_int(ev.ty, concat_fold([i \in 1..ev.rhs |-> ev.operands[1]]))
          /\ ev.n = make_int(ev.ty, Juxtaposed([i \in 1..ev.rhs |-> ev.operands[1]]))
          /\ ev.rhs = 0 => ev.n = 0

(* C32 witness: two copies of the two-bit value 0b10 have been repeated    *)
(* into 0b010 at width 3.                                                  *)
C32_Witness ==
    /\ ev.op = "Repeat" /\ ev.rhs = 2 /\ ev.ty = IntTy(3) /\ ev.n = 2
    /\ ev.operands = <<Val(IntTy(2), "Int", 2)>>

(* C33: for an amount that fits a machine integer, Shift{Left} returns     *)
(* value << amount when amount >= 0 and value >> |amount| when amount < 0, *)
(* Shift{Right} the reverse, reduced to the opcode's width; for an amount  *)
(* that does not fit, the result is 0.                                     *)
C33_ShiftFold ==
    ev.op \in {"Left", "Right"} =>
        LET mag == IF ev.rhs >= 0 THEN ev.rhs ELSE -ev.rhs
            up == (ev.op = "Left") = (ev.rhs >= 0)
        IN  /\ ev.kind = "Int"
            /\ ev.n = IF to_isize(ev.rhs) = <<>> THEN 0
                      ELSE make_int(ev.ty, IF up THEN ev.lhs * Pow2(mag)
                                           ELSE ev.lhs \div Pow2(mag))

(* C34: a cast opcode returns a value of the opcode's own type whose kind, *)
(* an integer with its bits or Error, is the kind of its evaluated         *)
(* operand, and its evaluation emits the warning once.                     *)
C34_CastFold ==
    ev.op = "Cast" =>
        /\ ev.rv /\ ev.ty = ev.mir_ty
        /\ ev.kind = ev.operands[1].kind
        /\ ev.kind = "Int" => ev.n = ev.operands[1].n
        /\ ev.diag = <<WarnCast>>

(* C34 witness: the three-bit integer 7 has been cast to a one-bit type    *)
(* and is still 7.                                                         *)
C34_Witness ==
    /\ ev.op = "Cast" /\ ev.ty = IntTy(1) /\ ev.kind = "Int" /\ ev.n = 7
    /\ ev.operands = <<Val(IntTy(3), "Int", 7)>>

(* What the order of resolution gives for node n under environment e: the  *)
(* target of an Indirect binding under the target's environment, else the  *)
(* value of a Direct binding, else the default or initializer under e,     *)
(* else an error.                                                          *)
RECURSIVE Resolved(_, _, _)
Resolved(c, n, e) ==
    IF c.hir[n].kind = "Expr" THEN COk(ExprValue(n, e))
    ELSE LET b == IF n \in 1..2 THEN c.bind[e][n] ELSE NoBinding
         IN  CASE b.k = "Indirect" -> Resolved(c, b.node, b.env)
               [] b.k = "Direct" -> COk(b.v)
               [] OTHER -> IF c.hir[n].fallback # 0
                           THEN Resolved(c, c.hir[n].fallback, e)
                           ELSE CErr

(* C35: constant_value_of on a value parameter or a genvar returns what    *)
(* the order Indirect binding, Direct binding, default (initializer),      *)
(* error gives; a binding takes precedence over the default; and the       *)
(* error comes with a diagnostic.                                          *)
C35_ResolutionOrder ==
    cv.st = "done" =>
        /\ cv.val = Resolved(cv, cv.root[1], cv.root[2])
        /\ (cv.root[1] \in 1..2 /\ cv.bind[cv.root[2]][cv.root[1]].k = "Direct")
              => cv.val = COk(cv.bind[cv.root[2]][cv.root[1]].v)
        /\ cv.val = CErr => cv.diags >= 1
        /\ cv.val # CErr => cv.diags = 0

(* C35 witness: a parameter with a default, bound Indirect to the genvar   *)
(* of the instantiating environment, which is bound Direct, has resolved   *)
(* to the bound value.                                                     *)
C35_Witness ==
    /\ cv.st = "done" /\ cv.root = <<1, 2>> /\ cv.hir[1].fallback = 3
    /\ cv.bind[2][1] = Indirect(2, 1) /\ cv.bind[1][2] = Direct(7)
    /\ cv.hir[2].fallback = 3
    /\ cv.val = COk(7)

(* C36: in every value of kind Int made by make_int or returned by         *)
(* const_mir_rvalue, the casts included, the special-bit and x-bit vectors *)
(* are as long as the type of the value is wide.                           *)
C36_BitVectorShape ==
    ((ev.rv \/ ev.op = "make_int") /\ ev.kind = "Int") => ev.bits = ev.ty.width

(* C37: in every reachable state an entry of defcond_stack above an entry  *)
(* that is not Enabled is Done, so the preprocessor is active exactly when *)
(* every entry is Enabled.                                                 *)
C37_NestedConditionals ==
    /\ \A i \in 2..Len(defcond_stack) :
          defcond_stack[i - 1] # "Enabled" => defcond_stack[i] = "Done"
    /\ ~is_inactive(defcond_stack) <=>
          \A i \in DOMAIN defcond_stack : defcond_stack[i] = "Enabled"

(* C37 witness: an `else inside a skipped branch has returned and left its *)
(* group Done.                                                             *)
C37_Witness ==
    /\ hd.dir = "Else" /\ hd.st = "ok"
    /\ defcond_stack = <<"Disabled", "Done">>

(* C38: once next() has returned None every later call returns None, and   *)
(* when None is returned no token is pending in the look-ahead or in       *)
(* macro_stack.                                                            *)
C38_EndOfStreamIsFinal ==
    /\ []((pc = "idle" /\ result = RNone) => [](pc = "idle" => result = RNone))
    /\ []((pc = "idle" /\ result = RNone) =>
            (token = NoTok /\ macro_stack = <<>>))

(* C39: the Pow fold terminates for every pair of operand values the       *)
(* evaluator can produce, exponents obtained from Neg or Sub included.     *)
C39_PowTerminates == ev.op = "Pow" => ev.kind # "Diverges"

(* C40: an invocation of a macro with k >= 1 parameters reaches the        *)
(* expansion only with exactly k arguments captured, so every parameter is *)
(* bound when the body is pushed.                                          *)
C40_ArgumentCount ==
    pc = "expand" =>
        /\ Len(lv.caps) = Len(lv.makro.args)
        /\ \A i \in DOMAIN lv.makro.args : lv.makro.args[i] \in DOMAIN lv.params

====
